---- MODULE Spec2Model ----
(***************************************************************************)
(* The Iridium toolchain: the two-pass assembler (assembler/mod.rs,        *)
(* assembler/instruction_parsers.rs) and the register VM (vm.rs,           *)
(* instruction.rs).  A source is held in parsed form, as the sequence of   *)
(* AssemblerInstruction records that program() hands to assemble.          *)
(***************************************************************************)
EXTENDS Integers, Sequences, FiniteSets, TLC

\* ------------------------------------------------------------------ bounds
\* Longest source (in instructions) that is composed.
MaxLines == 4
\* Number of assemble calls made on one Assembler instance.
MaxCalls == 2
\* Number of run calls made on one VM.
MaxRuns == 2
\* Number of execute_instruction calls made on one VM.
MaxSteps == 5
\* Number of instruction lines typed at the REPL prompt.
MaxCommands == 2

\* ------------------------------------------------------- program constants
PIE_HEADER_PREFIX == <<45, 50, 49, 45>>
PIE_HEADER_LENGTH == 64
\* The literal the first pass adds to current_instruction * 4.
LabelBase == 60
\* One slot of the label offset formula.
LabelStride == 4

\* ------------------------------------------------------------------ tokens
\* enum Token; None stands for Option::None in an AssemblerInstruction field.
NoToken == [kind |-> "None", num |-> 0, name |-> "", text |-> <<>>]
Op(code) == [kind |-> "Op", num |-> 0, name |-> code, text |-> <<>>]
Register(n) == [kind |-> "Register", num |-> n, name |-> "", text |-> <<>>]
IntegerOperand(v) == [kind |-> "IntegerOperand", num |-> v, name |-> "", text |-> <<>>]
LabelDeclaration(n) == [kind |-> "LabelDeclaration", num |-> 0, name |-> n, text |-> <<>>]
LabelUsage(n) == [kind |-> "LabelUsage", num |-> 0, name |-> n, text |-> <<>>]
Directive(n) == [kind |-> "Directive", num |-> 0, name |-> n, text |-> <<>>]
\* The string body is kept as its bytes (String::as_bytes).
IrString(bytes) == [kind |-> "IrString", num |-> 0, name |-> "", text |-> bytes]

\* struct AssemblerInstruction
AssemblerInstruction(l, o, d, o1, o2, o3) ==
    [label |-> l, opcode |-> o, directive |-> d,
     operand1 |-> o1, operand2 |-> o2, operand3 |-> o3]

is_label(i) == i.label.kind # "None"
is_directive(i) == i.directive.kind # "None"
is_opcode(i) == i.opcode.kind # "None"
has_operands(i) == i.operand1.kind # "None"

\* ------------------------------------------------------------------ opcodes
\* enum Opcode in declaration order: `code as u8` is the position in it.
OpcodeOrder ==
    <<"HLT", "LOAD", "ADD", "SUB", "MUL", "DIV", "JMP", "JMPF", "JMPB", "EQ",
      "NEQ", "GT", "LT", "GTQ", "LTQ", "JEQ", "IGL", "ALOC", "INC", "DEC", "PRTS">>

OpcodeAsU8(code) == (CHOOSE k \in 1..Len(OpcodeOrder) : OpcodeOrder[k] = code) - 1

\* impl From<u8> for Opcode
OpcodeFromU8(v) ==
    CASE v = 0 -> "HLT"
      [] v = 1 -> "LOAD"
      [] v = 2 -> "ADD"
      [] v = 3 -> "SUB"
      [] v = 4 -> "MUL"
      [] v = 5 -> "DIV"
      [] v = 6 -> "JMP"
      [] v = 7 -> "JMPF"
      [] v = 8 -> "JMPB"
      [] v = 9 -> "EQ"
      [] v = 10 -> "NEQ"
      [] v = 11 -> "GT"
      [] v = 12 -> "LT"
      [] v = 13 -> "GTQ"
      [] v = 14 -> "LTQ"
      [] v = 15 -> "JEQ"
      [] v = 16 -> "ALOC"
      [] v = 17 -> "INC"
      [] v = 18 -> "DEC"
      [] v = 19 -> "PRTS"
      [] OTHER -> "IGL"

\* Letters of identifiers, upper case and lower case at the same index.
UpperCase ==
    <<"A", "B", "C", "D", "E", "F", "G", "H", "I", "J", "K", "L", "M",
      "N", "O", "P", "Q", "R", "S", "T", "U", "V", "W", "X", "Y", "Z">>
LowerCase ==
    <<"a", "b", "c", "d", "e", "f", "g", "h", "i", "j", "k", "l", "m",
      "n", "o", "p", "q", "r", "s", "t", "u", "v", "w", "x", "y", "z">>

\* str::to_lowercase on an identifier: every upper-case letter becomes its
\* lower-case letter, every other character stays.
to_lowercase(w) ==
    [k \in 1..Len(w) |->
        IF \E n \in 1..Len(UpperCase) : UpperCase[n] = w[k]
        THEN LowerCase[CHOOSE n \in 1..Len(UpperCase) : UpperCase[n] = w[k]]
        ELSE w[k]]

\* The arms of the match in Opcode::from(CompleteStr), in their order.
MnemonicArms ==
    << <<(<<"l", "o", "a", "d">>), "LOAD">>, <<(<<"a", "d", "d">>), "ADD">>,
       <<(<<"s", "u", "b">>), "SUB">>, <<(<<"m", "u", "l">>), "MUL">>,
       <<(<<"d", "i", "v">>), "DIV">>, <<(<<"h", "l", "t">>), "HLT">>,
       <<(<<"j", "m", "p">>), "JMP">>, <<(<<"j", "m", "p", "f">>), "JMPF">>,
       <<(<<"j", "m", "p", "b">>), "JMPB">>, <<(<<"e", "q">>), "EQ">>,
       <<(<<"n", "e", "q">>), "NEQ">>, <<(<<"g", "t", "e">>), "GTQ">>,
       <<(<<"g", "t">>), "GT">>, <<(<<"l", "t", "e">>), "LTQ">>,
       <<(<<"l", "t">>), "LT">>, <<(<<"a", "l", "o", "c">>), "ALOC">>,
       <<(<<"i", "n", "c">>), "INC">>, <<(<<"d", "e", "c">>), "DEC">>,
       <<(<<"p", "r", "t", "s">>), "PRTS">> >>

\* impl From<CompleteStr> for Opcode: the first arm that equals the
\* lower-cased identifier, IGL when there is none.
OpcodeFromStr(v) ==
    LET lowercased_opcode == to_lowercase(v)
        hits == {n \in 1..Len(MnemonicArms) : MnemonicArms[n][1] = lowercased_opcode}
    IN  IF hits = {} THEN "IGL"
        ELSE MnemonicArms[CHOOSE n \in hits : \A m \in hits : n <= m][2]

\* ------------------------------------------------------------- symbol table
\* Symbol::new; the offset is always Some(offset).
Symbol(n, t, off) == [name |-> n, symbol_type |-> t, offset |-> off]

\* Option::None of symbol_value.
NoValue == -1

\* The position of the first symbol named s, 0 when there is none: the linear
\* scans of symbol_value, has_symbol and set_symbol_offset stop at it.
first_index(symbols, s) ==
    IF \E k \in 1..Len(symbols) : symbols[k].name = s
    THEN CHOOSE k \in 1..Len(symbols) :
            /\ symbols[k].name = s
            /\ \A j \in 1..(k - 1) : symbols[j].name # s
    ELSE 0

add_symbol(symbols, s) == Append(symbols, s)

symbol_value(symbols, s) ==
    IF first_index(symbols, s) = 0 THEN NoValue
    ELSE symbols[first_index(symbols, s)].offset

has_symbol(symbols, s) == first_index(symbols, s) # 0

\* The bool set_symbol_offset returns.
set_symbol_offset_returns(symbols, s) == first_index(symbols, s) # 0

\* A variant: a name that is not in the table is inserted with the offset.
set_symbol_offset_or_insert(symbols, s, off) ==
    IF first_index(symbols, s) = 0 THEN Append(symbols, Symbol(s, "Label", off))
    ELSE [symbols EXCEPT ![first_index(symbols, s)].offset = off]

\* The table set_symbol_offset leaves.
set_symbol_offset(symbols, s, off) ==
    IF first_index(symbols, s) = 0 THEN symbols
    ELSE [symbols EXCEPT ![first_index(symbols, s)].offset = off]

\* ------------------------------------------------------------------ errors
\* enum AssemblerError, as the assembler constructs its variants.
AssemblerError(k, ins, dir) == [kind |-> k, instruction |-> ins, directive |-> dir]

\* ---------------------------------------------------------------- assembler
\* Assembler::new
NewAssembler ==
    [phase |-> "First", symbols |-> <<>>, ro |-> <<>>, bytecode |-> <<>>,
     ro_offset |-> 0, sections |-> <<>>, current_section |-> "None",
     current_instruction |-> 0, errors |-> <<>>]

RECURSIVE Zeros(_)
Zeros(n) == IF n <= 0 THEN <<>> ELSE <<0>> \o Zeros(n - 1)

\* A variant: the prefix alone, without the zero fill up to PIE_HEADER_LENGTH.
write_pie_header_unpadded == PIE_HEADER_PREFIX

write_pie_header == PIE_HEADER_PREFIX \o Zeros(PIE_HEADER_LENGTH - Len(PIE_HEADER_PREFIX))

\* A variant: the label is inserted without the has_symbol check.
process_label_declaration_unchecked(a, i) ==
    IF i.label.kind # "LabelDeclaration"
    THEN [a EXCEPT !.errors = Append(@,
            AssemblerError("StringConstantDeclaredWithoutLabel", a.current_instruction, ""))]
    ELSE [a EXCEPT !.symbols = add_symbol(@,
            Symbol(i.label.name, "Label", (a.current_instruction * LabelStride) + LabelBase))]

process_label_declaration(a, i) ==
    IF i.label.kind # "LabelDeclaration"
    THEN [a EXCEPT !.errors = Append(@,
            AssemblerError("StringConstantDeclaredWithoutLabel", a.current_instruction, ""))]
    ELSE IF has_symbol(a.symbols, i.label.name)
    THEN [a EXCEPT !.errors = Append(@, AssemblerError("SymbolAlreadyDeclared", 0, ""))]
    ELSE [a EXCEPT !.symbols = add_symbol(@,
            Symbol(i.label.name, "Label", (a.current_instruction * LabelStride) + LabelBase))]

process_section_header(a, header_name) ==
    IF header_name \notin {"data", "code"}
    THEN a
    ELSE LET new_section == IF header_name = "data" THEN "Data" ELSE "Code"
         IN  [a EXCEPT !.sections = Append(@, new_section),
                       !.current_section = new_section]

handle_asciiz(a, i) ==
    IF a.phase # "First" THEN a
    ELSE IF i.operand1.kind # "IrString" THEN a
    ELSE IF i.label.kind # "LabelDeclaration" THEN a
    ELSE [a EXCEPT !.symbols = set_symbol_offset(@, i.label.name, a.ro_offset),
                   !.ro = @ \o i.operand1.text \o <<0>>,
                   !.ro_offset = @ + Len(i.operand1.text) + 1]

process_directive(a, i) ==
    IF i.directive.kind # "Directive" THEN a
    ELSE IF has_operands(i)
    THEN IF i.directive.name = "asciiz"
         THEN handle_asciiz(a, i)
         ELSE [a EXCEPT !.errors = Append(@,
                 AssemblerError("UnknownDirectiveFound", 0, i.directive.name))]
    ELSE process_section_header(a, i.directive.name)

\* A variant: a label declaration is processed whether or not a section is open.
first_phase_step_any_section(a, i) ==
    LET a1 == IF is_label(i) THEN process_label_declaration(a, i) ELSE a
        a2 == IF is_directive(i) THEN process_directive(a1, i) ELSE a1
    IN  [a2 EXCEPT !.current_instruction = @ + 1]

\* One iteration of the loop of process_first_phase.
first_phase_step(a, i) ==
    LET a1 == IF is_label(i)
              THEN IF a.current_section # "None"
                   THEN process_label_declaration(a, i)
                   ELSE [a EXCEPT !.errors = Append(@,
                           AssemblerError("NoSegmentDeclarationFound", a.current_instruction, ""))]
              ELSE a
        a2 == IF is_directive(i) THEN process_directive(a1, i) ELSE a1
    IN  [a2 EXCEPT !.current_instruction = @ + 1]

\* A variant: the loop of the first pass ends at the first error.
RECURSIVE first_phase_loop_until_error(_, _, _)
first_phase_loop_until_error(a, p, k) ==
    IF k > Len(p) \/ a.errors # <<>> THEN a
    ELSE first_phase_loop_until_error(first_phase_step(a, p[k]), p, k + 1)

RECURSIVE first_phase_loop(_, _, _)
first_phase_loop(a, p, k) ==
    IF k > Len(p) THEN a
    ELSE first_phase_loop(first_phase_step(a, p[k]), p, k + 1)

process_first_phase(a, p) == [first_phase_loop(a, p, 1) EXCEPT !.phase = "Second"]

\* A variant: the low byte first.
be16_low_first(value) == <<(value % 65536) % 256, ((value % 65536) \div 256) % 256>>

\* `value as u16`, then the high byte and the low byte.
be16(value) == <<((value % 65536) \div 256) % 256, (value % 65536) % 256>>

\* A variant: a label offset is emitted low byte first.
extract_operand_little_endian(t, results, symbols) ==
    CASE t.kind = "Register" -> Append(results, t.num)
      [] t.kind = "IntegerOperand" -> results \o be16(t.num)
      [] t.kind = "LabelUsage" ->
            IF symbol_value(symbols, t.name) # NoValue
            THEN results \o <<be16(symbol_value(symbols, t.name))[2],
                              be16(symbol_value(symbols, t.name))[1]>>
            ELSE results
      [] OTHER -> results

\* A variant: a label that is not in the symbol table is emitted as offset 0.
extract_operand_zero_for_unresolved(t, results, symbols) ==
    CASE t.kind = "Register" -> Append(results, t.num)
      [] t.kind = "IntegerOperand" -> results \o be16(t.num)
      [] t.kind = "LabelUsage" ->
            IF symbol_value(symbols, t.name) # NoValue
            THEN results \o be16(symbol_value(symbols, t.name))
            ELSE results \o <<0, 0>>
      [] OTHER -> results

extract_operand(t, results, symbols) ==
    CASE t.kind = "Register" -> Append(results, t.num)
      [] t.kind = "IntegerOperand" -> results \o be16(t.num)
      [] t.kind = "LabelUsage" ->
            IF symbol_value(symbols, t.name) # NoValue
            THEN results \o be16(symbol_value(symbols, t.name))
            ELSE results
      [] OTHER -> results

\* The tokens on which extract_operand ends the process (std::process::exit).
exits_process(i) ==
    \E t \in {i.operand1, i.operand2, i.operand3} :
        t.kind \notin {"None", "Register", "IntegerOperand", "LabelUsage"}

\* A variant: the bytes of an instruction filled with zeros up to 4 bytes.
to_bytes_in_frame(i, symbols) ==
    LET r0 == IF i.opcode.kind = "Op" THEN <<OpcodeAsU8(i.opcode.name)>> ELSE <<>>
        r1 == IF i.operand1.kind # "None" THEN extract_operand(i.operand1, r0, symbols) ELSE r0
        r2 == IF i.operand2.kind # "None" THEN extract_operand(i.operand2, r1, symbols) ELSE r1
        r3 == IF i.operand3.kind # "None" THEN extract_operand(i.operand3, r2, symbols) ELSE r2
    IN  r3 \o Zeros(4 - Len(r3))

to_bytes(i, symbols) ==
    LET r0 == IF i.opcode.kind = "Op" THEN <<OpcodeAsU8(i.opcode.name)>> ELSE <<>>
        r1 == IF i.operand1.kind # "None" THEN extract_operand(i.operand1, r0, symbols) ELSE r0
        r2 == IF i.operand2.kind # "None" THEN extract_operand(i.operand2, r1, symbols) ELSE r1
        r3 == IF i.operand3.kind # "None" THEN extract_operand(i.operand3, r2, symbols) ELSE r2
    IN  r3

RECURSIVE second_phase_loop(_, _, _, _)
second_phase_loop(a, p, k, program) ==
    IF k > Len(p) THEN [asm |-> a, body |-> program]
    ELSE LET i == p[k]
             program1 == IF is_opcode(i) THEN program \o to_bytes(i, a.symbols) ELSE program
             a1 == IF is_directive(i) THEN process_directive(a, i) ELSE a
         IN  second_phase_loop([a1 EXCEPT !.current_instruction = @ + 1], p, k + 1, program1)

process_second_phase(a, p) ==
    second_phase_loop([a EXCEPT !.current_instruction = 0], p, 1, <<>>)

\* Result<Vec<u8>, Vec<AssemblerError>>; "Exit" when the process was ended.
NoResult == [kind |-> "None", image |-> <<>>, errors |-> <<>>]
OkResult(bytes) == [kind |-> "Ok", image |-> bytes, errors |-> <<>>]
ErrResult(errs) == [kind |-> "Err", image |-> <<>>, errors |-> errs]
ExitResult == [kind |-> "Exit", image |-> <<>>, errors |-> <<>>]

\* Assembler::assemble on the parsed program p; program() is many1!(instruction),
\* so a source with no instruction is a parse error.
assemble(a, p) ==
    IF Len(p) = 0
    THEN [asm |-> a, result |-> ErrResult(<<AssemblerError("ParseError", 0, "")>>)]
    ELSE LET a1 == process_first_phase(a, p) IN
         IF a1.errors # <<>>
         THEN [asm |-> a1, result |-> ErrResult(a1.errors)]
         ELSE IF Len(a1.sections) # 2
         THEN LET a2 == [a1 EXCEPT !.errors = Append(@,
                            AssemblerError("InsufficientSections", 0, ""))]
              IN  [asm |-> a2, result |-> ErrResult(a2.errors)]
         ELSE IF \E k \in 1..Len(p) : is_opcode(p[k]) /\ exits_process(p[k])
         THEN [asm |-> a1, result |-> ExitResult]
         ELSE LET r == process_second_phase(a1, p)
              IN  [asm |-> r.asm, result |-> OkResult(write_pie_header \o r.body)]

\* ------------------------------------------------------------------- parser
\* A written line has the shape of an AssemblerInstruction: the tokens that
\* stand on it.  operand() is alt!(register | integer | label_usage): a quoted
\* string (IrString) or any other text is not an operand.
is_operand(t) == t.kind \in {"Register", "IntegerOperand", "LabelUsage"}

\* A line no alternative of instruction() accepts: it has neither an opcode
\* nor a directive.
Unparsable == AssemblerInstruction(NoToken, NoToken, NoToken, NoToken, NoToken, NoToken)

parses(w) == w.opcode.kind = "Op" \/ w.directive.kind = "Directive"

\* instruction_combined / directive_combined: three opt!(operand) in a row, so
\* the operands taken are the written ones up to the first that is no operand.
instruction(w) ==
    LET o1 == IF is_operand(w.operand1) THEN w.operand1 ELSE NoToken
        o2 == IF o1.kind # "None" /\ is_operand(w.operand2) THEN w.operand2 ELSE NoToken
        o3 == IF o2.kind # "None" /\ is_operand(w.operand3) THEN w.operand3 ELSE NoToken
    IN  AssemblerInstruction(w.label, w.opcode, w.directive, o1, o2, o3)

\* Text of the line is left over after instruction(): what follows it does not
\* start an instruction.
leaves_remainder(w) ==
    \E n \in {"operand1", "operand2", "operand3"} :
        w[n].kind # "None" /\ instruction(w)[n].kind = "None"

\* A variant: a line that is no instruction is skipped, not the end of the parse.
RECURSIVE program_from_skipping(_, _)
program_from_skipping(raw, k) ==
    IF k > Len(raw) THEN <<>>
    ELSE IF ~parses(raw[k]) THEN program_from_skipping(raw, k + 1)
    ELSE <<instruction(raw[k])>>
         \o (IF leaves_remainder(raw[k]) THEN <<>> ELSE program_from_skipping(raw, k + 1))

\* program(): many1!(instruction) from line k on; the remainder is dropped.
\* The empty result stands for Err (many1 needs one instruction).
RECURSIVE program_from(_, _)
program_from(raw, k) ==
    IF k > Len(raw) \/ ~parses(raw[k]) THEN <<>>
    ELSE <<instruction(raw[k])>>
         \o (IF leaves_remainder(raw[k]) THEN <<>> ELSE program_from(raw, k + 1))

program(raw) == program_from(raw, 1)

\* ----------------------------------------------------------------------- VM
\* i32 arithmetic, computed without leaving the 32-bit range.
I32Max == 2147483647
I32Min == (-I32Max) - 1
NumRegisters == 32

add_overflows(x, y) == (y > 0 /\ x > I32Max - y) \/ (y < 0 /\ x < I32Min - y)
wrapping_add(x, y) ==
    IF y > 0 /\ x > I32Max - y THEN (x + I32Min) + (y + I32Min)
    ELSE IF y < 0 /\ x < I32Min - y THEN (x - I32Min) + (y - I32Min)
    ELSE x + y

sub_overflows(x, y) == (y < 0 /\ x > I32Max + y) \/ (y > 0 /\ x < I32Min + y)
wrapping_sub(x, y) ==
    IF y < 0 /\ x > I32Max + y THEN (x + I32Min) - (y - I32Min)
    ELSE IF y > 0 /\ x < I32Min + y THEN (x - I32Min) - (y + I32Min)
    ELSE x - y

\* The product modulo 2^32, from 16-bit and 8-bit limbs.
wrapping_mul(x, y) ==
    LET x0 == x % 65536
        x1 == x \div 65536
        y0 == y % 65536
        y1 == y \div 65536
        p == (x0 % 256) * y0
        q == (x0 \div 256) * y0
        t == p + (256 * (q % 256))
        lo == t % 65536
        carry == (t \div 65536) + (q \div 256)
        hi == (carry + ((x1 * y0) % 65536) + ((x0 * y1) % 65536)) % 65536
    IN  IF hi >= 32768 THEN ((hi - 65536) * 65536) + lo ELSE (hi * 65536) + lo

abs(x) == IF x < 0 THEN -x ELSE x

mul_overflows(x, y) ==
    IF x = 0 \/ y = 0 THEN FALSE
    ELSE IF x = I32Min THEN y # 1
    ELSE IF y = I32Min THEN x # 1
    ELSE IF abs(y) = 1 THEN FALSE
    ELSE IF (x < 0) = (y < 0) THEN abs(x) > I32Max \div abs(y)
    ELSE abs(x) > (I32Max \div abs(y))
                    + (IF I32Max % abs(y) = abs(y) - 1 THEN 1 ELSE 0)

\* i32 division and remainder truncate toward zero (y # 0, not I32Min / -1).
div_pos(x, y) == IF x < 0 /\ x % y # 0 THEN (x \div y) + 1 ELSE x \div y
trunc_div(x, y) ==
    IF y > 0 THEN div_pos(x, y)
    ELSE IF y = I32Min THEN (IF x = I32Min THEN 1 ELSE 0)
    ELSE -div_pos(x, -y)
trunc_rem(x, y) == x - (y * trunc_div(x, y))

\* A variant: the magnitude of x as a u32.
as_u32_of_magnitude(x) == [hi |-> (abs(x) \div 65536) % 65536, lo |-> abs(x) % 65536]

\* `x as u32` of an i32: the u32 is kept as its two 16-bit halves.
as_u32(x) == [hi |-> (x \div 65536) % 65536, lo |-> x % 65536]

\* A variant: the magnitude of x as a usize.
as_usize_of_magnitude(x) == abs(x)

\* usize (64 bits): pc is kept as the two's complement reading of the usize, so
\* a negative pc stands for the usize 2^64 + pc, which `i32 as usize` produces.
as_usize(x) == x
pc_at_end(v) == v.pc < 0 \/ v.pc >= Len(v.program)

\* VM::new
NewVM ==
    [registers |-> [r \in 0..(NumRegisters - 1) |-> 0], pc |-> 0, program |-> <<>>,
     remainder |-> as_u32(0), equal_flag |-> FALSE, heap |-> <<>>, ro_data |-> <<>>]

\* self.program[self.pc + k]
program_at(v, k) == v.program[v.pc + k + 1]

\* What one call of execute_instruction did: the VM afterwards, the value it
\* returned (done), whether it panicked instead (trap), the opcode it decoded,
\* the number of program bytes it read and the bytes PRTS printed.
step_result(v, d, t, o, n, printed) ==
    [vm |-> v, done |-> d, trap |-> t, op |-> o, reads |-> n, out |-> printed]

\* A panic: the VM is not observed afterwards, it is left as it was.
panic(v, o, n) == step_result(v, FALSE, TRUE, o, n, <<>>)

\* The three-register arithmetic opcodes ADD, SUB and MUL: value is the wrapped
\* result; with overflow checks (a debug build) a result outside i32 panics,
\* without them it wraps.
arith3(v, o, value, overflows, checks) ==
    IF v.pc + 3 > Len(v.program) \/ program_at(v, 1) >= NumRegisters
       \/ program_at(v, 2) >= NumRegisters
    THEN panic(v, o, 2)
    ELSE IF checks /\ overflows THEN panic(v, o, 3)
    ELSE IF v.pc + 4 > Len(v.program) \/ program_at(v, 3) >= NumRegisters
    THEN panic(v, o, 3)
    ELSE step_result([v EXCEPT !.registers[program_at(v, 3)] = value,
                               !.pc = @ + 4],
                     FALSE, FALSE, o, 4, <<>>)

\* A variant: the comparison opcodes read their two register bytes and no pad.
compare_without_pad(v, o, flag) ==
    IF v.pc + 3 > Len(v.program) \/ program_at(v, 1) >= NumRegisters
       \/ program_at(v, 2) >= NumRegisters
    THEN panic(v, o, 2)
    ELSE step_result([v EXCEPT !.equal_flag = flag, !.pc = @ + 3],
                     FALSE, FALSE, o, 3, <<>>)

\* A variant: the comparison opcodes set the flag and leave pc on the opcode byte.
compare_keeps_pc(v, o, flag) ==
    IF v.pc + 3 > Len(v.program) \/ program_at(v, 1) >= NumRegisters
       \/ program_at(v, 2) >= NumRegisters
    THEN panic(v, o, 2)
    ELSE IF v.pc + 4 > Len(v.program)
    THEN panic(v, o, 3)
    ELSE step_result([v EXCEPT !.equal_flag = flag], FALSE, FALSE, o, 4, <<>>)

\* EQ, NEQ, GT, LT, GTQ, LTQ: two register bytes, the flag, then one pad byte.
compare(v, o, flag) ==
    IF v.pc + 3 > Len(v.program) \/ program_at(v, 1) >= NumRegisters
       \/ program_at(v, 2) >= NumRegisters
    THEN panic(v, o, 2)
    ELSE IF v.pc + 4 > Len(v.program)
    THEN panic(v, o, 3)
    ELSE step_result([v EXCEPT !.equal_flag = flag, !.pc = @ + 4],
                     FALSE, FALSE, o, 4, <<>>)

reg(v, k) == v.registers[program_at(v, k)]

\* The end of the string PRTS prints: the first zero at or after offset `from`
\* (1-based index into ro_data), 0 when the scan runs off the slice.
RECURSIVE zero_from(_, _)
zero_from(ro, from) ==
    IF from > Len(ro) THEN 0
    ELSE IF ro[from] = 0 THEN from
    ELSE zero_from(ro, from + 1)

\* VM::execute_instruction; checks says whether the build checks overflow.
execute_instruction(v, checks) ==
    IF pc_at_end(v)
    THEN step_result(v, TRUE, FALSE, "NONE", 0, <<>>)
    ELSE
    LET o == OpcodeFromU8(program_at(v, 0))
        have2 == v.pc + 2 <= Len(v.program)
        r1ok == have2 /\ program_at(v, 1) < NumRegisters
    IN
    CASE o = "HLT" -> step_result([v EXCEPT !.pc = @ + 1], TRUE, FALSE, o, 1, <<>>)
      [] o = "IGL" -> step_result([v EXCEPT !.pc = @ + 1], TRUE, FALSE, o, 1, <<>>)
      [] o = "LOAD" ->
            IF ~r1ok THEN panic(v, o, 1)
            ELSE IF v.pc + 4 > Len(v.program) THEN panic(v, o, 2)
            ELSE step_result(
                    [v EXCEPT !.registers[program_at(v, 1)] =
                                  (program_at(v, 2) * 256) + program_at(v, 3),
                              !.pc = @ + 4],
                    FALSE, FALSE, o, 4, <<>>)
      [] o = "ADD" -> IF ~r1ok THEN panic(v, o, 1)
                      ELSE arith3(v, o, wrapping_add(reg(v, 1), reg(v, 2)),
                                  add_overflows(reg(v, 1), reg(v, 2)), checks)
      [] o = "SUB" -> IF ~r1ok THEN panic(v, o, 1)
                      ELSE arith3(v, o, wrapping_sub(reg(v, 1), reg(v, 2)),
                                  sub_overflows(reg(v, 1), reg(v, 2)), checks)
      [] o = "MUL" -> IF ~r1ok THEN panic(v, o, 1)
                      ELSE arith3(v, o, wrapping_mul(reg(v, 1), reg(v, 2)),
                                  mul_overflows(reg(v, 1), reg(v, 2)), checks)
      [] o = "DIV" ->
            IF ~r1ok THEN panic(v, o, 1)
            ELSE IF v.pc + 3 > Len(v.program) \/ program_at(v, 2) >= NumRegisters
            THEN panic(v, o, 2)
            ELSE IF reg(v, 2) = 0 \/ (reg(v, 1) = I32Min /\ reg(v, 2) = -1)
            THEN panic(v, o, 3)
            ELSE IF v.pc + 4 > Len(v.program) \/ program_at(v, 3) >= NumRegisters
            THEN panic(v, o, 3)
            ELSE step_result(
                    [v EXCEPT !.registers[program_at(v, 3)] = trunc_div(reg(v, 1), reg(v, 2)),
                              !.remainder = as_u32(trunc_rem(reg(v, 1), reg(v, 2))),
                              !.pc = @ + 4],
                    FALSE, FALSE, o, 4, <<>>)
      [] o = "JMP" ->
            IF ~r1ok THEN panic(v, o, 1)
            ELSE step_result([v EXCEPT !.pc = as_usize(reg(v, 1))], FALSE, FALSE, o, 2, <<>>)
      [] o = "JMPF" ->
            IF ~r1ok THEN panic(v, o, 1)
            ELSE IF checks /\ reg(v, 1) < 0 /\ v.pc + 2 + reg(v, 1) >= 0 THEN panic(v, o, 2)
            ELSE step_result([v EXCEPT !.pc = v.pc + 2 + as_usize(reg(v, 1))],
                             FALSE, FALSE, o, 2, <<>>)
      [] o = "JMPB" ->
            IF ~r1ok THEN panic(v, o, 1)
            ELSE IF checks /\ (reg(v, 1) < 0 \/ v.pc + 2 < reg(v, 1)) THEN panic(v, o, 2)
            ELSE step_result([v EXCEPT !.pc = v.pc + 2 - as_usize(reg(v, 1))],
                             FALSE, FALSE, o, 2, <<>>)
      [] o = "EQ" -> IF ~r1ok THEN panic(v, o, 1) ELSE compare(v, o, reg(v, 1) = reg(v, 2))
      [] o = "NEQ" -> IF ~r1ok THEN panic(v, o, 1) ELSE compare(v, o, reg(v, 1) # reg(v, 2))
      [] o = "GT" -> IF ~r1ok THEN panic(v, o, 1) ELSE compare(v, o, reg(v, 1) > reg(v, 2))
      [] o = "LT" -> IF ~r1ok THEN panic(v, o, 1) ELSE compare(v, o, reg(v, 1) < reg(v, 2))
      [] o = "GTQ" -> IF ~r1ok THEN panic(v, o, 1) ELSE compare(v, o, reg(v, 1) >= reg(v, 2))
      [] o = "LTQ" -> IF ~r1ok THEN panic(v, o, 1) ELSE compare(v, o, reg(v, 1) <= reg(v, 2))
      [] o = "JEQ" ->
            IF ~r1ok THEN panic(v, o, 1)
            ELSE step_result([v EXCEPT !.pc = IF v.equal_flag THEN as_usize(reg(v, 1))
                                              ELSE v.pc + 2],
                             FALSE, FALSE, o, 2, <<>>)
      [] o = "ALOC" ->
            IF ~r1ok THEN panic(v, o, 1)
            ELSE LET new_end == wrapping_add(Len(v.heap), reg(v, 1)) IN
                 IF checks /\ add_overflows(Len(v.heap), reg(v, 1)) THEN panic(v, o, 2)
                 ELSE IF new_end < 0 THEN panic(v, o, 2)
                 ELSE step_result(
                        [v EXCEPT !.heap = IF new_end <= Len(v.heap)
                                           THEN SubSeq(v.heap, 1, new_end)
                                           ELSE v.heap \o Zeros(new_end - Len(v.heap)),
                                  !.pc = @ + 2],
                        FALSE, FALSE, o, 2, <<>>)
      [] o = "INC" ->
            IF ~r1ok THEN panic(v, o, 1)
            ELSE IF checks /\ reg(v, 1) = I32Max THEN panic(v, o, 2)
            ELSE step_result([v EXCEPT !.registers[program_at(v, 1)] = wrapping_add(@, 1),
                                       !.pc = @ + 2],
                             FALSE, FALSE, o, 2, <<>>)
      [] o = "DEC" ->
            IF ~r1ok THEN panic(v, o, 1)
            ELSE IF checks /\ reg(v, 1) = I32Min THEN panic(v, o, 2)
            ELSE step_result([v EXCEPT !.registers[program_at(v, 1)] = wrapping_sub(@, 1),
                                       !.pc = @ + 2],
                             FALSE, FALSE, o, 2, <<>>)
      [] o = "PRTS" ->
            IF v.pc + 3 > Len(v.program) THEN panic(v, o, IF have2 THEN 2 ELSE 1)
            ELSE LET starting_offset == (program_at(v, 1) * 256) + program_at(v, 2)
                     ending == zero_from(v.ro_data, starting_offset + 1)
                 IN  IF ending = 0 THEN panic(v, o, 3)
                     ELSE step_result([v EXCEPT !.pc = @ + 3], FALSE, FALSE, o, 3,
                                      SubSeq(v.ro_data, starting_offset + 1, ending - 1))

\* ------------------------------------------------------------------- state
VARIABLES
    src,      \* the parsed program handed to assemble
    asm,      \* the Assembler instance
    result,   \* what the last assemble call returned
    calls,    \* assemble calls made on this instance
    text,     \* the written source, line by line, before it is parsed
    vm,       \* the VM instance
    mode,     \* "idle", "running" (inside the loop of run), "panicked", "exited"
    status,   \* what the last completed run call returned, NoStatus before
    last,     \* the last call of execute_instruction
    runs,     \* run calls made
    steps,    \* execute_instruction calls made
    commands, \* instruction lines typed at the REPL prompt
    checks,   \* the build checks arithmetic overflow (debug) or wraps (release)
    ident,    \* an identifier written in opcode position, letter by letter
    ident_opcode, \* the Opcode made from ident, "NONE" before
    table,    \* a SymbolTable used on its own
    symcall   \* the last call made on table and what it returned

\* The variables of the VM and of the session that drives it.
vmvars == <<vm, mode, status, last, runs, steps, commands, checks>>

\* The variables of the opcode lookup.
lexvars == <<ident, ident_opcode>>

\* The variables of the symbol table used on its own.
symvars == <<table, symcall>>

vars == <<src, asm, result, calls, text, vmvars, lexvars, symvars>>

\* No identifier was looked up.
NoWord == ident = <<>> /\ ident_opcode = "NONE"

\* A call on the symbol table: its arguments, the bool it returned (found)
\* and the Option<u32> it returned (value).
SymCall(o, n, off, f, v) == [op |-> o, name |-> n, offset |-> off, found |-> f, value |-> v]

\* SymbolTable::new, and no call made on it.
NoSymCall == table = <<>> /\ symcall = SymCall("new", "", 0, FALSE, NoValue)

\* run has not returned yet.
NoStatus == -1

\* No execute_instruction call was made since the last entry of run.
NoStep == [op |-> "NONE", at |-> 0, done |-> FALSE]

\* The VM and its session before anything was done with them.
NewSession ==
    /\ vm = NewVM
    /\ mode = "idle"
    /\ status = NoStatus
    /\ last = NoStep
    /\ runs = 0
    /\ steps = 0
    /\ commands = 0

\* ------------------------------------------------------------------ sources
HI == <<72, 105>>

Lines ==
    { AssemblerInstruction(NoToken, NoToken, Directive("data"), NoToken, NoToken, NoToken),
      AssemblerInstruction(NoToken, NoToken, Directive("code"), NoToken, NoToken, NoToken),
      AssemblerInstruction(NoToken, Op("HLT"), NoToken, NoToken, NoToken, NoToken),
      AssemblerInstruction(NoToken, Op("INC"), NoToken, Register(0), NoToken, NoToken),
      AssemblerInstruction(LabelDeclaration("a"), Op("INC"), NoToken, Register(0), NoToken, NoToken),
      AssemblerInstruction(NoToken, Op("EQ"), NoToken, Register(0), Register(1), NoToken),
      AssemblerInstruction(NoToken, Op("LOAD"), NoToken, Register(0), IntegerOperand(500), NoToken),
      AssemblerInstruction(NoToken, Op("PRTS"), NoToken, LabelUsage("a"), NoToken, NoToken),
      AssemblerInstruction(LabelDeclaration("a"), NoToken, Directive("asciiz"), IrString(HI), NoToken, NoToken) }

Init ==
    /\ src = <<>>
    /\ asm = NewAssembler
    /\ result = NoResult
    /\ calls = 0
    /\ text = <<>>
    /\ NoWord
    /\ NoSymCall
    /\ NewSession
    /\ checks = FALSE

\* The caller writes one more line of the source it will assemble.
AppendLine(l) ==
    /\ calls = 0
    /\ Len(src) < MaxLines
    /\ src' = Append(src, l)
    /\ UNCHANGED <<asm, result, calls, text, vmvars, lexvars, symvars>>

\* asm.assemble(src)
Assemble ==
    /\ calls < MaxCalls
    /\ asm' = assemble(asm, src).asm
    /\ result' = assemble(asm, src).result
    /\ calls' = calls + 1
    /\ UNCHANGED <<src, text, vmvars, lexvars, symvars>>

Next ==
    \/ \E l \in Lines : AppendLine(l)
    \/ Assemble

Spec == Init /\ [][Next]_vars

\* ------------------------------------------------------------ written sources
\* Lines as they are written: a quoted string stands where the writer put it,
\* and Unparsable is a line that is no instruction.
TextLines ==
    { AssemblerInstruction(NoToken, NoToken, Directive("data"), NoToken, NoToken, NoToken),
      AssemblerInstruction(NoToken, NoToken, Directive("code"), NoToken, NoToken, NoToken),
      AssemblerInstruction(NoToken, Op("HLT"), NoToken, NoToken, NoToken, NoToken),
      AssemblerInstruction(LabelDeclaration("a"), Op("INC"), NoToken, Register(0), NoToken, NoToken),
      AssemblerInstruction(LabelDeclaration("a"), NoToken, Directive("word"), IntegerOperand(1), NoToken, NoToken),
      AssemblerInstruction(LabelDeclaration("a"), NoToken, Directive("asciiz"), IrString(HI), NoToken, NoToken),
      AssemblerInstruction(NoToken, NoToken, Directive("asciiz"), IrString(HI), NoToken, NoToken),
      Unparsable }

\* The writer adds one more line to the source.
WriteLine(l) ==
    /\ calls = 0
    /\ Len(text) < MaxLines
    /\ text' = Append(text, l)
    /\ UNCHANGED <<src, asm, result, calls, vmvars, lexvars, symvars>>

\* asm.assemble(text): program() parses the text, the passes work on what it
\* returned.
AssembleText ==
    /\ calls < MaxCalls
    /\ src' = program(text)
    /\ asm' = assemble(asm, program(text)).asm
    /\ result' = assemble(asm, program(text)).result
    /\ calls' = calls + 1
    /\ UNCHANGED <<text, vmvars, lexvars, symvars>>

NextText ==
    \/ \E l \in TextLines : WriteLine(l)
    \/ AssembleText

SpecText == Init /\ [][NextText]_vars

\* --------------------------------------------------------------- VM session
\* VM::verify_header, on a program of at least 4 bytes (the slice
\* program[0..4] panics on a shorter one).
verify_header(v) == SubSeq(v.program, 1, 4) = PIE_HEADER_PREFIX

\* The program of v is long enough for the header check and passes it.
HasHeader(v) == Len(v.program) >= 4 /\ verify_header(v)

\* A variant: run starts from the first byte of the program.
RunEntryAtStart == 64 - 64

\* The pc run starts from.
RunEntryPc == 64

\* VM::add_bytes
add_bytes(v, b) == [v EXCEPT !.program = @ \o b]

\* The entry of VM::run on v: the header check, then pc = 64 and the loop.
RunEntry(v) ==
    /\ runs' = runs + 1
    /\ last' = NoStep
    /\ IF Len(v.program) < 4
       THEN vm' = v /\ mode' = "panicked" /\ status' = status
       ELSE IF ~verify_header(v)
       THEN vm' = v /\ mode' = "idle" /\ status' = 1
       ELSE vm' = [v EXCEPT !.pc = RunEntryPc] /\ mode' = "running" /\ status' = status

\* A variant: the loop of run goes on after execute_instruction returned done.
ExecuteIgnoringDone(v, in_run) ==
    LET r == execute_instruction(v, checks) IN
    /\ steps' = steps + 1
    /\ vm' = r.vm
    /\ last' = [op |-> r.op, at |-> v.pc, done |-> r.done]
    /\ mode' = IF r.trap THEN "panicked"
               ELSE IF in_run THEN "running"
               ELSE "idle"
    /\ status' = status

\* One call of execute_instruction on v, inside the loop of run or alone
\* (run_once): a panic ends the process, done ends the loop and run returns 0.
Execute(v, in_run) ==
    LET r == execute_instruction(v, checks) IN
    /\ steps' = steps + 1
    /\ vm' = r.vm
    /\ last' = [op |-> r.op, at |-> v.pc, done |-> r.done]
    /\ mode' = IF r.trap THEN "panicked"
               ELSE IF in_run /\ ~r.done THEN "running"
               ELSE "idle"
    /\ status' = IF in_run /\ r.done /\ ~r.trap THEN 0 ELSE status

\* main with an input file: assemble it with a new Assembler; on Ok load the
\* image into the VM and enter run, otherwise return.
Main ==
    /\ src # <<>>
    /\ calls = 0
    /\ mode = "idle"
    /\ asm' = assemble(asm, src).asm
    /\ result' = assemble(asm, src).result
    /\ calls' = 1
    /\ IF assemble(asm, src).result.kind = "Ok"
       THEN RunEntry(add_bytes(vm, assemble(asm, src).result.image))
       ELSE /\ mode' = "exited"
            /\ UNCHANGED <<vm, status, last, runs>>
    /\ UNCHANGED <<src, text, steps, commands, checks, lexvars, symvars>>

\* One more turn of the loop of run.
RunStep ==
    /\ mode = "running"
    /\ steps < MaxSteps
    /\ Execute(vm, TRUE)
    /\ UNCHANGED <<src, asm, result, calls, text, runs, commands, checks, lexvars, symvars>>

\* The REPL prompt is reached: at once without an input file, after main's
\* run with one.
AtPrompt == mode = "idle" /\ (src = <<>> \/ calls = 1)

\* The REPL command .run
ReplRun ==
    /\ AtPrompt
    /\ runs < MaxRuns
    /\ RunEntry(vm)
    /\ UNCHANGED <<src, asm, result, calls, text, steps, commands, checks, lexvars, symvars>>

\* A variant: run_once checks the header and starts from the entry of run.
ReplRunOnceFromEntry ==
    /\ AtPrompt
    /\ steps < MaxSteps
    /\ HasHeader(vm)
    /\ Execute([vm EXCEPT !.pc = RunEntryPc], FALSE)
    /\ UNCHANGED <<src, asm, result, calls, text, runs, commands, checks, lexvars, symvars>>

\* The REPL command .run_once
ReplRunOnce ==
    /\ AtPrompt
    /\ steps < MaxSteps
    /\ Execute(vm, FALSE)
    /\ UNCHANGED <<src, asm, result, calls, text, runs, commands, checks, lexvars, symvars>>

\* An instruction line typed at the prompt: its bytes are appended to the
\* program and run_once executes at the current pc.
ReplInstruction(i) ==
    /\ AtPrompt
    /\ commands < MaxCommands
    /\ steps < MaxSteps
    /\ commands' = commands + 1
    /\ Execute(add_bytes(vm, to_bytes(i, asm.symbols)), FALSE)
    /\ UNCHANGED <<src, asm, result, calls, text, runs, checks, lexvars, symvars>>

\* Instruction lines typed at the prompt.
ReplLines ==
    { AssemblerInstruction(NoToken, Op("HLT"), NoToken, NoToken, NoToken, NoToken),
      AssemblerInstruction(NoToken, Op("INC"), NoToken, Register(0), NoToken, NoToken),
      AssemblerInstruction(NoToken, Op("EQ"), NoToken, Register(0), Register(1), NoToken),
      AssemblerInstruction(NoToken, Op("LOAD"), NoToken, Register(0), IntegerOperand(500), NoToken),
      AssemblerInstruction(NoToken, Op("JMP"), NoToken, Register(0), NoToken, NoToken),
      AssemblerInstruction(NoToken, Op("JMPB"), NoToken, Register(0), NoToken, NoToken) }

DataHeader == AssemblerInstruction(NoToken, NoToken, Directive("data"), NoToken, NoToken, NoToken)
CodeHeader == AssemblerInstruction(NoToken, NoToken, Directive("code"), NoToken, NoToken, NoToken)

\* Input files given to main; the empty one stands for no input file.
VMSources ==
    { <<>>,
      <<AssemblerInstruction(NoToken, Op("HLT"), NoToken, NoToken, NoToken, NoToken)>>,
      <<DataHeader, CodeHeader,
        AssemblerInstruction(NoToken, Op("HLT"), NoToken, NoToken, NoToken, NoToken)>>,
      <<DataHeader, CodeHeader,
        AssemblerInstruction(NoToken, Op("LOAD"), NoToken, Register(1), IntegerOperand(500), NoToken),
        AssemblerInstruction(NoToken, Op("ALOC"), NoToken, Register(1), NoToken, NoToken)>>,
      <<DataHeader,
        AssemblerInstruction(LabelDeclaration("a"), NoToken, Directive("asciiz"), IrString(HI), NoToken, NoToken),
        CodeHeader,
        AssemblerInstruction(NoToken, Op("PRTS"), NoToken, LabelUsage("a"), NoToken, NoToken),
        AssemblerInstruction(NoToken, Op("HLT"), NoToken, NoToken, NoToken, NoToken)>>,
      <<DataHeader, CodeHeader,
        AssemblerInstruction(NoToken, Op("EQ"), NoToken, Register(0), Register(1), NoToken)>> }

InitVM ==
    /\ src \in VMSources
    /\ asm = NewAssembler
    /\ result = NoResult
    /\ calls = 0
    /\ text = <<>>
    /\ NoWord
    /\ NoSymCall
    /\ NewSession
    /\ checks \in BOOLEAN

NextVM ==
    \/ Main
    \/ RunStep
    \/ ReplRun
    \/ ReplRunOnce
    \/ \E i \in ReplLines : ReplInstruction(i)

SpecVM == InitVM /\ [][NextVM]_vars

\* The immediates of the load instructions assembled and run.
Immediates == {0, 1, 255, 256, 500, 32767, 32768, 65535}

\* The sources `.data .code load $r #v`.
LoadSources ==
    { <<DataHeader, CodeHeader,
        AssemblerInstruction(NoToken, Op("LOAD"), NoToken, Register(r), IntegerOperand(v), NoToken)>> :
      r \in 0..(NumRegisters - 1), v \in Immediates }

InitLoad ==
    /\ src \in LoadSources
    /\ asm = NewAssembler
    /\ result = NoResult
    /\ calls = 0
    /\ text = <<>>
    /\ NoWord
    /\ NoSymCall
    /\ NewSession
    /\ checks \in BOOLEAN

NextLoad ==
    \/ Main
    \/ RunStep

SpecLoad == InitLoad /\ [][NextLoad]_vars

\* ------------------------------------------------------------- VM set up
\* vm::prepend_header
prepend_header(b) == PIE_HEADER_PREFIX \o Zeros(PIE_HEADER_LENGTH - Len(PIE_HEADER_PREFIX)) \o b

\* VM::init_registers, for a register array that is zero from register 2 on.
init_registers(v, a, b) ==
    [v EXCEPT !.registers = [r \in 0..(NumRegisters - 1) |->
                                IF r = 0 THEN a ELSE IF r = 1 THEN b ELSE 0]]

\* Register values a VM is set up with.
ExecValues == {I32Min, -10, -3, -1, 0, 1, 2, 3, 10, I32Max}

\* Register values of the set-ups that allocate.
AllocValues == {-3, -1, 0, 1, 2, 3}

\* Instruction bytes a VM is set up with: DIV, the six comparisons with their
\* pad byte followed by HLT, a comparison without its pad byte, HLT, a byte
\* that is no opcode, and ADD, SUB, MUL.
ExecBodies ==
    { <<5, 0, 1, 2>>, <<5, 1, 0, 0>>,
      <<9, 0, 1, 0, 0>>, <<10, 0, 1, 0, 0>>, <<11, 0, 1, 0, 0>>,
      <<12, 0, 1, 0, 0>>, <<13, 0, 1, 0, 0>>, <<14, 0, 1, 0, 0>>,
      <<9, 0, 1>>, <<0>>, <<200>>,
      <<2, 0, 1, 2>>, <<3, 0, 1, 2>>, <<4, 0, 1, 2>> }

\* Instruction bytes that allocate: ALOC $0 then ALOC $1.
AllocBodies == { <<16, 0, 16, 1, 0>> }

\* Register values of the set-ups that branch.
BranchValues == {-3, -1, 0, 1, 2, 3, 64, 66}

\* Instruction bytes that branch: JMP, JMPF, JMPB and JEQ on $0 followed by
\* HLT, and EQ $0 $0 followed by JEQ $1 (as in test_jeq_opcode).
BranchBodies ==
    { <<6, 0, 0>>, <<7, 0, 0, 0>>, <<8, 0, 0>>, <<15, 0, 0>>, <<9, 0, 0, 0, 15, 1, 0>> }

\* A VM set up the way the tests of vm.rs do it: registers and program are
\* assigned, the program with or without the header, before run or run_once.
InitExec ==
    /\ src = <<>>
    /\ asm = NewAssembler
    /\ result = NoResult
    /\ calls = 0
    /\ text = <<>>
    /\ NoWord
    /\ NoSymCall
    /\ mode = "idle"
    /\ status = NoStatus
    /\ last = NoStep
    /\ runs = 0
    /\ steps = 0
    /\ commands = 0
    /\ checks \in BOOLEAN
    /\ \E headed \in BOOLEAN :
         \/ \E body \in ExecBodies, a \in ExecValues, b \in ExecValues :
              vm = [init_registers(NewVM, a, b) EXCEPT
                        !.program = IF headed THEN prepend_header(body) ELSE body]
         \/ \E body \in AllocBodies, a \in AllocValues, b \in AllocValues :
              vm = [init_registers(NewVM, a, b) EXCEPT
                        !.program = IF headed THEN prepend_header(body) ELSE body]
         \/ \E body \in BranchBodies, a \in BranchValues, b \in BranchValues :
              vm = [init_registers(NewVM, a, b) EXCEPT
                        !.program = IF headed THEN prepend_header(body) ELSE body]

NextExec ==
    \/ ReplRun
    \/ RunStep
    \/ ReplRunOnce

SpecExec == InitExec /\ [][NextExec]_vars

\* -------------------------------------------------------------- the run loop
\* Registers 0 and 1 and the program bodies of the VMs whose run loop is
\* followed to its end: increments, a load and a halt, a comparison, an
\* unassigned byte, and jumps (JMP to 64 is a program that runs forever).
RunValues == {0, 1, 64}
RunBodies ==
    { <<17, 0, 17, 1>>, <<1, 0, 0, 5, 0>>, <<9, 0, 1, 0>>, <<18, 0, 200>>,
      <<6, 0>>, <<17, 1, 15, 0>> }

InitRun ==
    /\ src = <<>>
    /\ asm = NewAssembler
    /\ result = NoResult
    /\ calls = 0
    /\ text = <<>>
    /\ NoWord
    /\ NoSymCall
    /\ mode = "idle"
    /\ status = NoStatus
    /\ last = NoStep
    /\ runs = 0
    /\ steps = 0
    /\ commands = 0
    /\ checks \in BOOLEAN
    /\ \E body \in RunBodies, a \in RunValues, b \in RunValues :
          vm = [init_registers(NewVM, a, b) EXCEPT !.program = prepend_header(body)]

NextRun ==
    \/ ReplRun
    \/ RunStep

\* The loop of run calls execute_instruction again as long as it has not
\* returned true: a turn that can be taken is taken.
SpecRun == InitRun /\ [][NextRun]_vars /\ WF_vars(RunStep)

\* ---------------------------------------------------------- written registers
\* str::parse::<u8> failed.
ParseIntError == -1

\* str::parse::<u8> on decimal digits d from digit k on, acc being the value of
\* the digits before: an error as soon as the value leaves 0..255.
RECURSIVE parse_u8_from(_, _, _)
parse_u8_from(d, k, acc) ==
    IF k > Len(d) THEN acc
    ELSE IF (acc * 10) + d[k] > 255 THEN ParseIntError
    ELSE parse_u8_from(d, k + 1, (acc * 10) + d[k])

parse_u8(d) == parse_u8_from(d, 1, 0)

\* The register parser on `$` followed by the digits d that parse as a u8
\* (unwrap panics on the others, and nothing is assembled).
register(d) == Register(parse_u8(d))

\* The digits written after `$`: one to three decimal digits.
RegisterDigits == UNION { [1..n -> 0..9] : n \in 1..3 }

\* The sources `.data .code load $d #1` the parser delivers.
RegisterSources ==
    { <<DataHeader, CodeHeader,
        AssemblerInstruction(NoToken, Op("LOAD"), NoToken, register(d), IntegerOperand(1), NoToken)>> :
      d \in {e \in RegisterDigits : parse_u8(e) # ParseIntError} }

InitReg ==
    /\ src \in RegisterSources
    /\ asm = NewAssembler
    /\ result = NoResult
    /\ calls = 0
    /\ text = <<>>
    /\ NoWord
    /\ NoSymCall
    /\ NewSession
    /\ checks \in BOOLEAN

SpecReg == InitReg /\ [][NextLoad]_vars

\* ------------------------------------------------------------ opcode lookup
\* Every way of writing the letters of w in upper or lower case.
RECURSIVE CaseVariants(_)
CaseVariants(w) ==
    IF w = <<>> THEN {<<>>}
    ELSE LET n == CHOOSE n \in 1..Len(LowerCase) : LowerCase[n] = Head(w)
         IN  {<<c>> \o v : c \in {LowerCase[n], UpperCase[n]}, v \in CaseVariants(Tail(w))}

\* Identifiers written in opcode position: the mnemonics hlt, load, add, sub,
\* mul, div, jmp, jmpf, jmpb, eq, neq, gt, lt, gtq, ltq, jeq, aloc, inc, dec,
\* prts and the identifiers gte, lte, igl, nop in every letter case, and two
\* identifiers with a digit and an underscore.
Words ==
    UNION { CaseVariants(w) :
            w \in { <<"h", "l", "t">>, <<"l", "o", "a", "d">>, <<"a", "d", "d">>,
                    <<"s", "u", "b">>, <<"m", "u", "l">>, <<"d", "i", "v">>,
                    <<"j", "m", "p">>, <<"j", "m", "p", "f">>, <<"j", "m", "p", "b">>,
                    <<"e", "q">>, <<"n", "e", "q">>, <<"g", "t">>, <<"l", "t">>,
                    <<"g", "t", "q">>, <<"l", "t", "q">>, <<"j", "e", "q">>,
                    <<"a", "l", "o", "c">>, <<"i", "n", "c">>, <<"d", "e", "c">>,
                    <<"p", "r", "t", "s">>,
                    <<"g", "t", "e">>, <<"l", "t", "e">>, <<"i", "g", "l">>,
                    <<"n", "o", "p">> } }
    \cup { <<"l", "o", "a", "d", "1">>, <<"h", "l", "t", "_">> }

InitLex ==
    /\ src = <<>>
    /\ asm = NewAssembler
    /\ result = NoResult
    /\ calls = 0
    /\ text = <<>>
    /\ NewSession
    /\ checks = FALSE
    /\ ident \in Words
    /\ ident_opcode = "NONE"
    /\ NoSymCall

\* Opcode::from(ident)
OpcodeFrom ==
    /\ ident_opcode = "NONE"
    /\ ident_opcode' = OpcodeFromStr(ident)
    /\ UNCHANGED <<src, asm, result, calls, text, vmvars, ident, symvars>>

NextLex == OpcodeFrom

SpecLex == InitLex /\ [][NextLex]_vars

\* ------------------------------------------------------ symbol table calls
\* The names and offsets the caller passes to the symbol table.
SymNames == {"a", "b", "test"}
SymOffsets == {0, 12, 64}

InitSym ==
    /\ src = <<>>
    /\ asm = NewAssembler
    /\ result = NoResult
    /\ calls = 0
    /\ text = <<>>
    /\ NoWord
    /\ NoSymCall
    /\ NewSession
    /\ checks = FALSE

\* sym.add_symbol(Symbol::new(n, SymbolType::Label, off)), by a caller that
\* does not insert a name twice.
AddSymbol(n, off) ==
    /\ \A k \in 1..Len(table) : table[k].name # n
    /\ table' = add_symbol(table, Symbol(n, "Label", off))
    /\ symcall' = SymCall("add_symbol", n, off, FALSE, NoValue)
    /\ UNCHANGED <<src, asm, result, calls, text, vmvars, lexvars>>

\* sym.set_symbol_offset(n, off)
SetSymbolOffset(n, off) ==
    /\ table' = set_symbol_offset(table, n, off)
    /\ symcall' = SymCall("set_symbol_offset", n, off, set_symbol_offset_returns(table, n), NoValue)
    /\ UNCHANGED <<src, asm, result, calls, text, vmvars, lexvars>>

\* sym.has_symbol(n)
HasSymbol(n) ==
    /\ symcall' = SymCall("has_symbol", n, 0, has_symbol(table, n), NoValue)
    /\ UNCHANGED <<src, asm, result, calls, text, vmvars, lexvars, table>>

\* sym.symbol_value(n)
SymbolValue(n) ==
    /\ symcall' = SymCall("symbol_value", n, 0, FALSE, symbol_value(table, n))
    /\ UNCHANGED <<src, asm, result, calls, text, vmvars, lexvars, table>>

NextSym ==
    \/ \E n \in SymNames, off \in SymOffsets : AddSymbol(n, off)
    \/ \E n \in SymNames, off \in SymOffsets : SetSymbolOffset(n, off)
    \/ \E n \in SymNames : HasSymbol(n)
    \/ \E n \in SymNames : SymbolValue(n)

SpecSym == InitSym /\ [][NextSym]_vars

\* ------------------------------------------------------------ --- predicates
\* The opcode-bearing instructions of p among its first n.
OpcodeLines(p, n) == {k \in 1..n : is_opcode(p[k])}

\* Bytes emitted for the instructions before position k.
RECURSIVE BytesBefore(_, _, _)
BytesBefore(p, symbols, k) ==
    IF k <= 1 THEN 0
    ELSE BytesBefore(p, symbols, k - 1)
         + (IF is_opcode(p[k - 1]) THEN Len(to_bytes(p[k - 1], symbols)) ELSE 0)

\* Index in the image (0-based) of the first byte of instruction k.
ImageIndex(p, symbols, k) == 64 + BytesBefore(p, symbols, k)

\* The byte at 0-based index n of the image, -1 past its end.
ImageByte(n) == IF n + 1 <= Len(result.image) THEN result.image[n + 1] ELSE -1

IsSectionHeader(i, n) == is_directive(i) /\ ~has_operands(i) /\ i.directive.name = n
IsAsciiz(i) == is_directive(i) /\ has_operands(i) /\ i.directive.name = "asciiz"
HasSection(p, n) == \E k \in 1..Len(p) : IsSectionHeader(p[k], n)
\* A .data or .code header stands before position k.
SectionOpenAt(p, k) ==
    \E j \in 1..(k - 1) : IsSectionHeader(p[j], "data") \/ IsSectionHeader(p[j], "code")
Declares(i, n) == is_label(i) /\ i.label.name = n
ErrorKinds(errs) == {errs[k].kind : k \in 1..Len(errs)}

\* The source declares both sections, as the dialect requires.
BothSections(p) == HasSection(p, "data") /\ HasSection(p, "code")

\* ------------------------------------------------------------------- properties

\* C1: whenever assemble returns an image, it is the 64-byte header (45, 50,
\* 49, 45, then zeros up to byte 63) followed by the bytes of the
\* opcode-bearing instructions, so it is at least 64 bytes long.
C1_ImageIsHeaderThenBody ==
    result.kind = "Ok" =>
        /\ Len(result.image) >= 64
        /\ SubSeq(result.image, 1, 4) = <<45, 50, 49, 45>>
        /\ \A k \in 5..64 : result.image[k] = 0
        /\ Len(result.image) = ImageIndex(src, asm.symbols, Len(src) + 1)
        /\ \A k \in OpcodeLines(src, Len(src)) :
              \A b \in 1..Len(to_bytes(src[k], asm.symbols)) :
                 ImageByte(ImageIndex(src, asm.symbols, k) + b - 1)
                    = to_bytes(src[k], asm.symbols)[b]

C1_Witness == result.kind = "Ok" /\ Len(result.image) > 64

\* C2: every opcode-bearing instruction occupies exactly 4 bytes of the body,
\* so the body of an assembled source (one with a .data and a .code section)
\* is 4 times as long as the number of such instructions.
C2_FourBytesPerInstruction ==
    (result.kind = "Ok" /\ BothSections(src)) =>
        Len(result.image) - 64 = 4 * Cardinality(OpcodeLines(src, Len(src)))

\* The bytes the VM reads when it executes the bytes emitted for instruction i
\* (followed by the bytes of a next frame, so that no read runs off the end).
VMReads(i, symbols) ==
    execute_instruction(
        [NewVM EXCEPT !.program = to_bytes(i, symbols) \o <<0, 0, 0, 0>>,
                      !.registers = [r \in 0..(NumRegisters - 1) |-> 1],
                      !.ro_data = <<0>>],
        FALSE).reads

\* Every operand of i is emitted: a label use is resolved.
ProperOperands(i, symbols) ==
    \A t \in {i.operand1, i.operand2, i.operand3} :
        t.kind = "LabelUsage" => has_symbol(symbols, t.name)

\* C3: for every instruction of an assembled source (one with a .data and a
\* .code section), the VM reads as many bytes executing it as the assembler
\* emitted for it.
C3_VMReadsWhatAssemblerEmits ==
    (result.kind = "Ok" /\ BothSections(src)) =>
        \A k \in OpcodeLines(src, Len(src)) :
            ProperOperands(src[k], asm.symbols) =>
                VMReads(src[k], asm.symbols) = Len(to_bytes(src[k], asm.symbols))

\* The opcodes read at body offsets 0, 4, 8, ...
RECURSIVE DecodeEvery4(_, _)
DecodeEvery4(body, from) ==
    IF from > Len(body) THEN <<>>
    ELSE <<OpcodeFromU8(body[from])>> \o DecodeEvery4(body, from + 4)

\* The opcodes of the opcode-bearing instructions of p, in source order.
RECURSIVE SourceOpcodes(_, _)
SourceOpcodes(p, k) ==
    IF k > Len(p) THEN <<>>
    ELSE (IF is_opcode(p[k]) THEN <<p[k].opcode.name>> ELSE <<>>) \o SourceOpcodes(p, k + 1)

\* C4: reading one opcode per 4 bytes of the body of an assembled source (one
\* with a .data and a .code section) recovers the source's opcode sequence.
C4_DecodeRecoversOpcodes ==
    (result.kind = "Ok" /\ BothSections(src)) =>
        DecodeEvery4(SubSeq(result.image, 65, Len(result.image)), 1) = SourceOpcodes(src, 1)

\* The declaration at position k is the one the first pass inserts: a section
\* is open, the name was not declared before, and no asciiz rewrites it.
InsertedCodeLabel(p, k) ==
    /\ is_label(p[k])
    /\ ~IsAsciiz(p[k])
    /\ SectionOpenAt(p, k)
    /\ \A j \in 1..Len(p) : j # k => ~Declares(p[j], p[k].label.name)

\* C5: on a fresh assembler, a label on the instruction at 0-based position i,
\* not attached to asciiz, gets offset i * 4 + 64.
C5_LabelOffsetIsIndexTimes4Plus64 ==
    calls = 1 =>
        \A k \in 1..Len(src) :
            InsertedCodeLabel(src, k) =>
                symbol_value(asm.symbols, src[k].label.name) = ((k - 1) * 4) + 64

\* C6: in an assembled source (one with a .data and a .code section), the
\* offset of a label on an opcode-bearing instruction is the image index of
\* that instruction's opcode byte.
C6_CodeLabelIsCodeAddress ==
    (result.kind = "Ok" /\ BothSections(src)) =>
        \A k \in OpcodeLines(src, Len(src)) :
            is_label(src[k]) =>
                symbol_value(asm.symbols, src[k].label.name)
                    = ImageIndex(src, asm.symbols, k)

\* Bytes emitted for the operands of i that precede operand number n.
OperandWidth(t, symbols) ==
    CASE t.kind = "Register" -> 1
      [] t.kind = "IntegerOperand" -> 2
      [] t.kind = "LabelUsage" -> IF has_symbol(symbols, t.name) THEN 2 ELSE 0
      [] OTHER -> 0
OperandOf(i, n) == IF n = 1 THEN i.operand1 ELSE IF n = 2 THEN i.operand2 ELSE i.operand3
RECURSIVE OperandStart(_, _, _)
OperandStart(i, symbols, n) ==
    IF n <= 1 THEN 1
    ELSE OperandStart(i, symbols, n - 1) + OperandWidth(OperandOf(i, n - 1), symbols)

\* C7: an @name operand is emitted as the two bytes, high byte first, of the
\* offset the first pass left in the symbol table for name, wherever in the
\* source name is declared (before or after the use).
C7_LabelUseTakesFirstPassOffset ==
    result.kind = "Ok" =>
        \A k \in OpcodeLines(src, Len(src)) : \A n \in 1..3 :
            LET t == OperandOf(src[k], n)
                at == ImageIndex(src, asm.symbols, k) + OperandStart(src[k], asm.symbols, n)
            IN  (t.kind = "LabelUsage" /\ has_symbol(asm.symbols, t.name)) =>
                    /\ ImageByte(at) = symbol_value(asm.symbols, t.name) \div 256
                    /\ ImageByte(at + 1) = symbol_value(asm.symbols, t.name) % 256

\* A use of a label whose declaration comes later in the source was assembled.
C7_Witness ==
    /\ result.kind = "Ok"
    /\ \E k \in OpcodeLines(src, Len(src)) : \E j \in (k + 1)..Len(src) :
          /\ src[k].operand1.kind = "LabelUsage"
          /\ Declares(src[j], src[k].operand1.name)
          /\ has_symbol(asm.symbols, src[k].operand1.name)

\* C8: a source without a .data header, or without a .code header, is not
\* assembled; unless the first pass recorded another error, the error list
\* holds InsufficientSections.
C8_MissingSectionRejected ==
    (calls = 1 /\ Len(src) > 0 /\ (~HasSection(src, "data") \/ ~HasSection(src, "code"))) =>
        /\ result.kind = "Err"
        /\ ErrorKinds(result.errors) \subseteq {"InsufficientSections"}
              => "InsufficientSections" \in ErrorKinds(result.errors)

\* C9: on a fresh assembler a source with at least one .data and at least one
\* .code header is never answered with InsufficientSections.
C9_BothSectionsSuffice ==
    (calls = 1 /\ HasSection(src, "data") /\ HasSection(src, "code")) =>
        "InsufficientSections" \notin ErrorKinds(result.errors)

\* The same name is declared at two positions of p.
DeclaredTwice(p) ==
    \E j \in 1..Len(p) : \E k \in (j + 1)..Len(p) :
        is_label(p[j]) /\ Declares(p[k], p[j].label.name)
\* ... and a section is open at the first of them.
DeclaredTwiceInSection(p) ==
    \E j \in 1..Len(p) : \E k \in (j + 1)..Len(p) :
        is_label(p[j]) /\ Declares(p[k], p[j].label.name) /\ SectionOpenAt(p, j)

NoDuplicateSymbols ==
    \A j \in 1..Len(asm.symbols) : \A k \in 1..Len(asm.symbols) :
        asm.symbols[j].name = asm.symbols[k].name => j = k

\* C10 as stated: a source that declares a label name twice is answered with
\* an error list holding SymbolAlreadyDeclared and no image, and the symbol
\* table never holds a name twice.
C10_DuplicateLabelRejected ==
    /\ NoDuplicateSymbols
    /\ (calls >= 1 /\ DeclaredTwice(src)) =>
          /\ result.kind = "Err"
          /\ "SymbolAlreadyDeclared" \in ErrorKinds(result.errors)

\* C10 amended: the same, for a name declared twice with a section header
\* standing before the first declaration.
C10_DuplicateLabelInSectionRejected ==
    /\ NoDuplicateSymbols
    /\ (calls >= 1 /\ DeclaredTwiceInSection(src)) =>
          /\ result.kind = "Err"
          /\ "SymbolAlreadyDeclared" \in ErrorKinds(result.errors)

C10_Witness ==
    /\ calls = 1
    /\ DeclaredTwiceInSection(src)
    /\ "SymbolAlreadyDeclared" \in ErrorKinds(result.errors)
    /\ Len(asm.symbols) = 1

\* The names declared on instructions of p that stand after a section header.
NamesDeclaredInSection(p) ==
    {p[k].label.name : k \in {j \in 1..Len(p) : is_label(p[j]) /\ SectionOpenAt(p, j)}}

\* C11: when a source is assembled (by a new Assembler, as main does), a label
\* on an instruction that stands before every section header records
\* NoSegmentDeclarationFound with that instruction's 0-based index and inserts
\* no symbol (the table holds only the names declared after a section header),
\* and assemble returns no image.
C11_LabelBeforeSectionRejected ==
    calls = 1 =>
        \A k \in 1..Len(src) :
            (is_label(src[k]) /\ ~SectionOpenAt(src, k)) =>
                /\ result.kind = "Err"
                /\ \E e \in 1..Len(result.errors) :
                      result.errors[e] = AssemblerError("NoSegmentDeclarationFound", k - 1, "")
                /\ Len(asm.symbols) = Cardinality(NamesDeclaredInSection(src))
                /\ \A n \in 1..Len(asm.symbols) :
                      asm.symbols[n].name \in NamesDeclaredInSection(src)

\* A label stands before every section header, on an instruction that is not
\* the first, and the same name is declared again after a header.
C11_Witness ==
    /\ calls = 1
    /\ \E k \in 2..Len(src) : \E j \in (k + 1)..Len(src) :
          /\ is_label(src[k]) /\ ~SectionOpenAt(src, k)
          /\ Declares(src[j], src[k].label.name) /\ SectionOpenAt(src, j)
    /\ result.kind = "Err"

\* The errors instruction k of p records in the first pass of a new Assembler:
\* for its label, then for its directive.
LineErrors(p, k) ==
    (IF ~is_label(p[k]) THEN <<>>
     ELSE IF ~SectionOpenAt(p, k)
     THEN <<AssemblerError("NoSegmentDeclarationFound", k - 1, "")>>
     ELSE IF \E j \in 1..(k - 1) : Declares(p[j], p[k].label.name) /\ SectionOpenAt(p, j)
     THEN <<AssemblerError("SymbolAlreadyDeclared", 0, "")>>
     ELSE <<>>)
    \o (IF is_directive(p[k]) /\ has_operands(p[k]) /\ p[k].directive.name # "asciiz"
        THEN <<AssemblerError("UnknownDirectiveFound", 0, p[k].directive.name)>>
        ELSE <<>>)

RECURSIVE ErrorsUpTo(_, _)
ErrorsUpTo(p, k) == IF k = 0 THEN <<>> ELSE ErrorsUpTo(p, k - 1) \o LineErrors(p, k)

Offending(p) == {k \in 1..Len(p) : LineErrors(p, k) # <<>>}

SectionHeaders(p) ==
    {k \in 1..Len(p) : IsSectionHeader(p[k], "data") \/ IsSectionHeader(p[k], "code")}

\* The first pass went over all of p and the second pass did not run: the
\* counter stands at the number of instructions and every section header was
\* recorded once.
OnlyFirstPassRan(p) ==
    /\ asm.current_instruction = Len(p)
    /\ Len(asm.sections) = Cardinality(SectionHeaders(p))

\* C12 as stated: the first pass goes over every instruction, also after an
\* error, and records one error per offending instruction, in source order; if
\* there is any, assemble returns exactly those errors and no image, and the
\* second pass does not run.
C12_OneErrorPerOffendingInstruction ==
    (calls = 1 /\ Offending(src) # {}) =>
        /\ result = ErrResult(ErrorsUpTo(src, Len(src)))
        /\ asm.errors = result.errors
        /\ OnlyFirstPassRan(src)
        /\ Len(result.errors) = Cardinality(Offending(src))

\* C12 amended: the same, where an instruction records an error for its label
\* (outside a section, or declared before) and an error for its directive
\* (unknown, with operands), so up to two.
C12_ErrorsOfEveryInstructionInOrder ==
    (calls = 1 /\ Offending(src) # {}) =>
        /\ result = ErrResult(ErrorsUpTo(src, Len(src)))
        /\ asm.errors = result.errors
        /\ OnlyFirstPassRan(src)
        /\ \A k \in 1..Len(src) : Len(LineErrors(src, k)) <= 2

\* Two instructions recorded an error and a section header after the first of
\* them was still recorded.
C12_Witness ==
    /\ calls = 1
    /\ \E j \in Offending(src) : \E k \in Offending(src) : \E h \in SectionHeaders(src) :
          j < h /\ h < k
    /\ Len(asm.sections) >= 1
    /\ Len(result.errors) >= 2

\* program() fails on the text: it is empty or its first line is no instruction.
ParseFails(t) == t = <<>> \/ ~parses(t[1])

\* C13: an assemble call whose parse fails returns exactly one ParseError and
\* leaves the Assembler (symbols, ro, ro offset, sections, phase, errors) as
\* it was.
C13_ParseFailureChangesNothing ==
    [][(calls' = calls + 1 /\ ParseFails(text)) =>
          /\ result' = ErrResult(<<AssemblerError("ParseError", 0, "")>>)
          /\ asm' = asm]_vars

\* assemble was called on a text of several lines whose first is no instruction.
C13_Witness ==
    /\ calls >= 1
    /\ Len(text) >= 2
    /\ ~parses(text[1])
    /\ \E k \in 2..Len(text) : parses(text[k])
    /\ result.kind = "Err"

\* C14: a source with a line that is no instruction is answered with
\* ParseError and no image, wherever the line stands.
C14_GrammarFailureAnywhereRejected ==
    (calls = 1 /\ \E k \in 1..Len(text) : ~parses(text[k])) =>
        result = ErrResult(<<AssemblerError("ParseError", 0, "")>>)

\* A written line `name: .asciiz 'text'`.
IsLabelledString(w) ==
    /\ w.label.kind = "LabelDeclaration"
    /\ w.directive.kind = "Directive" /\ w.directive.name = "asciiz"
    /\ w.operand1.kind = "IrString"

\* A written line `.asciiz 'text'` without a label.
IsUnlabelledString(w) ==
    /\ w.label.kind = "None"
    /\ w.directive.kind = "Directive" /\ w.directive.name = "asciiz"
    /\ w.operand1.kind = "IrString"

\* The strings of the labelled asciiz lines of t, each with its terminator, in
\* source order.
RECURSIVE StringsOf(_, _)
StringsOf(t, k) ==
    IF k > Len(t) THEN <<>>
    ELSE (IF IsLabelledString(t[k]) THEN t[k].operand1.text \o <<0>> ELSE <<>>)
         \o StringsOf(t, k + 1)

\* C15: after a new Assembler assembled a source without first-pass errors,
\* ro holds the strings of its `name: .asciiz 'text'` lines in source order,
\* each followed by a zero, the offset of each name is where its string
\* starts in ro, and the ro offset is the length of ro.
C15_AsciizStringsInRo ==
    (calls = 1 /\ ~ParseFails(text)
       /\ ErrorKinds(asm.errors) \subseteq {"InsufficientSections"}) =>
        /\ asm.ro = StringsOf(text, 1)
        /\ asm.ro_offset = Len(asm.ro)
        /\ \A k \in 1..Len(text) :
              IsLabelledString(text[k]) =>
                 LET o == symbol_value(asm.symbols, text[k].label.name)
                     n == Len(text[k].operand1.text)
                 IN  /\ 0 <= o /\ o < Len(asm.ro)
                     /\ SubSeq(asm.ro, o + 1, o + n) = text[k].operand1.text
                     /\ asm.ro[o + n + 1] = 0

\* C16: a source with an `.asciiz 'text'` line that has no label is answered
\* with an error list holding StringConstantDeclaredWithoutLabel and no image.
C16_StringWithoutLabelRejected ==
    (calls = 1 /\ ~ParseFails(text) /\ \E k \in 1..Len(text) : IsUnlabelledString(text[k])) =>
        /\ result.kind = "Err"
        /\ "StringConstantDeclaredWithoutLabel" \in ErrorKinds(result.errors)

\* The program starts with the 4-byte magic prefix.
HasPrefix(prog) == Len(prog) >= 4 /\ SubSeq(prog, 1, 4) = <<45, 50, 49, 45>>

\* C17: a run call on a program that does not start with the magic prefix
\* (the empty program and programs shorter than 4 bytes included) returns 1
\* and leaves the VM as it was; on a program that starts with it, run sets pc
\* to 64 before it executes.
C17_RunChecksHeader ==
    [][(runs' = runs + 1 /\ calls' = calls) =>
          IF HasPrefix(vm.program)
          THEN mode' = "running" /\ vm' = [vm EXCEPT !.pc = 64]
          ELSE mode' = "idle" /\ status' = 1 /\ vm' = vm]_vars

NonBranching ==
    {"LOAD", "ADD", "SUB", "MUL", "DIV", "EQ", "NEQ", "GT", "LT", "GTQ", "LTQ",
     "ALOC", "INC", "DEC", "PRTS"}

Branching == {"JMP", "JMPF", "JMPB", "JEQ"}

\* C18: after a successful step that decoded a non-branching opcode, pc is 4
\* past the address of the opcode byte.
C18_StepAdvancesPcBy4 ==
    (mode # "panicked" /\ last.op \in NonBranching) => vm.pc = last.at + 4

\* pc values in the order of usize (a negative pc stands for 2^64 + pc).
usize_le(x, y) == IF (x < 0) = (y < 0) THEN x <= y ELSE y < 0

\* C19 as stated: over run and run_once calls, pc never decreases from one
\* state to the next unless the step executed JMP, JMPB, JMPF or JEQ.
C19_PcNeverDecreases ==
    [][usize_le(vm.pc, vm'.pc) \/ (steps' = steps + 1 /\ last'.op \in Branching)]_vars

\* C19 amended: the same, except that the entry of run sets pc to 64, which
\* is a decrease when pc was past 64.
C19_PcDecreasesOnlyByBranchOrRunEntry ==
    [][\/ usize_le(vm.pc, vm'.pc)
       \/ (steps' = steps + 1 /\ last'.op \in Branching)
       \/ (runs' = runs + 1 /\ vm'.pc = 64)]_vars

\* run was entered a second time on a program with a valid header, after the
\* first run had moved pc past 64.
C19_Witness ==
    /\ runs = 2
    /\ steps >= 1
    /\ HasPrefix(vm.program)
    /\ mode = "running"
    /\ last = NoStep
    /\ vm.pc = 64

\* C20: after `load $r #v` was assembled and run, register r holds v and
\* every other register is as it was (0).
C20_LoadLeavesImmediateInRegister ==
    (calls = 1 /\ status = 0 /\ mode = "idle") =>
        vm.registers = [k \in 0..(NumRegisters - 1) |->
                           IF k = src[3].operand1.num THEN src[3].operand2.num ELSE 0]

\* The largest immediate was loaded into the last register.
C20_Witness ==
    /\ calls = 1 /\ status = 0 /\ mode = "idle"
    /\ src[3].operand1.num = 31
    /\ src[3].operand2.num = 65535
    /\ vm.registers[31] = 65535

\* ---------------------------------------------------------- VM instructions
\* The call of execute_instruction that is about to be made on vm decodes
\* opcode o.
Decodes(o) == ~pc_at_end(vm) /\ OpcodeFromU8(program_at(vm, 0)) = o

\* The n bytes after the opcode byte are there and the first k of them name
\* registers.
HasOperands(n, k) ==
    /\ ~pc_at_end(vm)
    /\ vm.pc + 1 + n <= Len(vm.program)
    /\ \A j \in 1..k : program_at(vm, j) < NumRegisters

\* A step of the VM on its own program: run's loop or run_once.
VMStep == steps' = steps + 1 /\ commands' = commands

\* q is x / y truncated toward zero and m the rest of that division: m is
\* zero or has the sign of x, and is smaller than y in magnitude.
IsTruncatedDivision(q, m, x, y) ==
    /\ m = x - (q * y)
    /\ m = 0 \/ ((m > 0) = (x > 0))
    /\ IF y > 0 THEN m < y /\ -y < m ELSE y < m /\ y < -m

\* m converted to u32: 2^32 + m for a negative m, in 16-bit halves.
U32Of(m) ==
    IF m >= 0 THEN [hi |-> m \div 65536, lo |-> m % 65536]
    ELSE [hi |-> 65535 - ((-(m + 1)) \div 65536), lo |-> 65535 - ((-(m + 1)) % 65536)]

\* DIV stored quotient and rest of r1 / r2 and left the other registers alone.
DivStored ==
    LET x == reg(vm, 1)
        y == reg(vm, 2)
        rd == program_at(vm, 3)
    IN  /\ mode' # "panicked"
        /\ IsTruncatedDivision(vm'.registers[rd], x - (vm'.registers[rd] * y), x, y)
        /\ vm'.remainder = U32Of(x - (vm'.registers[rd] * y))
        /\ \A r \in 0..(NumRegisters - 1) : r # rd => vm'.registers[r] = vm.registers[r]

\* C21 as stated: DIV with a non-zero divisor stores in rd the quotient r1 / r2
\* truncated toward zero and in remainder r1 rem r2 converted to u32, and
\* leaves the other registers unchanged.
C21_DivStoresQuotientAndRemainder ==
    [][(VMStep /\ Decodes("DIV") /\ HasOperands(3, 3) /\ reg(vm, 2) # 0)
          => DivStored]_vars

\* C21 amended: the same, for a non-zero divisor other than the division of
\* the smallest i32 by -1, whose quotient is no i32: that division panics.
C21_DivStoresQuotientUnlessOverflow ==
    [][(VMStep /\ Decodes("DIV") /\ HasOperands(3, 3) /\ reg(vm, 2) # 0
          /\ ~(reg(vm, 1) = I32Min /\ reg(vm, 2) = -1))
          => DivStored]_vars

\* DIV ran on -10 and 3 and left -3 and the rest -1 as a u32.
C21_Witness ==
    /\ last.op = "DIV"
    /\ mode # "panicked"
    /\ vm.registers[0] = -10
    /\ vm.registers[1] = 3
    /\ vm.registers[2] = -3
    /\ vm.remainder = [hi |-> 65535, lo |-> 65535]

C23_IllegalOpcodeEndsRunWithError ==
    [][(mode = "running" /\ VMStep)
          => /\ Decodes("HLT") => (mode' = "idle" /\ status' = 0)
             /\ Decodes("IGL") => (mode' = "idle" /\ status' # 0)]_vars

\* C24: the heap is append-only: no executed instruction makes it shorter or
\* changes a byte already in it, and ALOC with r[reg] = n appends exactly n
\* zero bytes.
C24_HeapAppendOnly ==
    [][VMStep
          => /\ Len(vm'.heap) >= Len(vm.heap)
             /\ SubSeq(vm'.heap, 1, Len(vm.heap)) = vm.heap
             /\ (Decodes("ALOC") /\ HasOperands(1, 1) /\ mode' # "panicked")
                    => vm'.heap = vm.heap \o Zeros(reg(vm, 1))]_vars

\* run_once was called: a step of the VM made at the prompt, outside run.
RunOnceCalled == mode = "idle" /\ VMStep

\* C25: run_once executes exactly one instruction at the current pc, without
\* checking the header and without resetting pc, and returns; with pc at or
\* past the end of the program it changes no VM state.
C25_RunOnceExecutesOneInstruction ==
    [][RunOnceCalled
          => /\ vm' = execute_instruction(vm, checks).vm
             /\ last'.at = vm.pc
             /\ runs' = runs
             /\ status' = status
             /\ mode' \in {"idle", "panicked"}
             /\ pc_at_end(vm) => vm' = vm]_vars

\* run_once executed the HLT of a program without header where run had left
\* off, and a further run_once at the end of that program changed nothing.
C25_Witness ==
    /\ ~HasPrefix(vm.program)
    /\ steps >= 3
    /\ runs = 0
    /\ pc_at_end(vm)
    /\ last.op = "NONE"
    /\ last.at = vm.pc
    /\ vm.pc = 5
    /\ mode = "idle"

\* The mnemonics of the opcode table, each under the name of its opcode.
TableMnemonics ==
    [HLT |-> <<"H", "L", "T">>, LOAD |-> <<"L", "O", "A", "D">>, ADD |-> <<"A", "D", "D">>,
     SUB |-> <<"S", "U", "B">>, MUL |-> <<"M", "U", "L">>, DIV |-> <<"D", "I", "V">>,
     JMP |-> <<"J", "M", "P">>, JMPF |-> <<"J", "M", "P", "F">>,
     JMPB |-> <<"J", "M", "P", "B">>, EQ |-> <<"E", "Q">>, NEQ |-> <<"N", "E", "Q">>,
     GT |-> <<"G", "T">>, LT |-> <<"L", "T">>, GTQ |-> <<"G", "T", "Q">>,
     LTQ |-> <<"L", "T", "Q">>, JEQ |-> <<"J", "E", "Q">>,
     ALOC |-> <<"A", "L", "O", "C">>, INC |-> <<"I", "N", "C">>,
     DEC |-> <<"D", "E", "C">>, PRTS |-> <<"P", "R", "T", "S">>]

\* c and d are the same letter in some letter case, or the same character.
SameLetter(c, d) ==
    \/ c = d
    \/ \E n \in 1..Len(UpperCase) :
          {c, d} \subseteq {UpperCase[n], LowerCase[n]}

\* w is the mnemonic m written in some letter case.
Writes(w, m) == Len(w) = Len(m) /\ \A k \in 1..Len(w) : SameLetter(w[k], m[k])

\* C26: each mnemonic of the opcode table, written in any letter case, is
\* mapped to its own opcode, and every other identifier to IGL.
C26_MnemonicsMapToOwnOpcode ==
    ident_opcode # "NONE"
        => /\ \A o \in DOMAIN TableMnemonics :
                Writes(ident, TableMnemonics[o]) => ident_opcode = o
           /\ (\A o \in DOMAIN TableMnemonics : ~Writes(ident, TableMnemonics[o]))
                => ident_opcode = "IGL"

\* The register operands of the instructions of p.
RegisterOperands(p) ==
    { OperandOf(p[c[1]], c[2]).num :
      c \in { c \in (1..Len(p)) \X (1..3) : OperandOf(p[c[1]], c[2]).kind = "Register" } }

\* C27: every register number the assembler accepts and emits is in 0..31, so
\* the VM never indexes its registers outside 0..31 (which panics) when it
\* executes the image assemble produced.
C27_AssembledRegistersInRange ==
    (calls = 1 /\ result.kind = "Ok")
        => /\ RegisterOperands(src) \subseteq 0..(NumRegisters - 1)
           /\ mode # "panicked"

\* The opcode numbers of the opcode table.
TableNumber ==
    [HLT |-> 0, LOAD |-> 1, ADD |-> 2, SUB |-> 3, MUL |-> 4, DIV |-> 5, JMP |-> 6,
     JMPF |-> 7, JMPB |-> 8, EQ |-> 9, NEQ |-> 10, GT |-> 11, LT |-> 12, GTQ |-> 13,
     LTQ |-> 14, JEQ |-> 15, ALOC |-> 16, INC |-> 17, DEC |-> 18, PRTS |-> 19]

\* C28: the opcode byte the assembler emits for an instruction of a source
\* with a .data and a .code section is the table's number of its opcode (HLT 0 ... JEQ 15, ALOC 16, INC 17, DEC 18, PRTS 19),
\* and the VM decodes that byte back to the same opcode.
C28_OpcodeByteIsTableNumber ==
    (calls = 1 /\ result.kind = "Ok" /\ BothSections(src))
        => \A k \in OpcodeLines(src, Len(src)) :
              LET byte == ImageByte(ImageIndex(src, asm.symbols, k)) IN
              /\ byte = TableNumber[src[k].opcode.name]
              /\ OpcodeFromU8(byte) = src[k].opcode.name

\* Bytes of the opcode-bearing instruction i: one for the opcode, one per
\* register operand, two per integer operand and per label use that symbols
\* resolves.
InstructionBytes(i, symbols) ==
    1 + OperandWidth(i.operand1, symbols) + OperandWidth(i.operand2, symbols)
      + OperandWidth(i.operand3, symbols)

\* The sum of InstructionBytes over the opcode-bearing instructions among the
\* first n of p.
RECURSIVE BodyBytes(_, _, _)
BodyBytes(p, symbols, n) ==
    IF n = 0 THEN 0
    ELSE BodyBytes(p, symbols, n - 1)
         + (IF is_opcode(p[n]) THEN InstructionBytes(p[n], symbols) ELSE 0)

\* C29: the image of a source that assembles is 64 bytes plus, for each of its
\* opcode-bearing instructions, 1 byte for the opcode, 1 per register operand
\* and 2 per integer or resolved label operand; directive lines and label
\* declarations add nothing.
C29_ImageLengthIsSumOfOperandBytes ==
    (calls = 1 /\ result.kind = "Ok")
        => Len(result.image) = 64 + BodyBytes(src, asm.symbols, Len(src))

\* A source with both section headers, a labelled `inc $0` and a `prts @a`
\* that resolves assembled to 64 + 2 + 3 bytes.
C29_Witness ==
    /\ calls = 1
    /\ result.kind = "Ok"
    /\ BothSections(src)
    /\ \E k \in 1..Len(src) : is_opcode(src[k]) /\ is_label(src[k])
    /\ \E k \in 1..Len(src) :
          /\ src[k].operand1.kind = "LabelUsage"
          /\ has_symbol(asm.symbols, src[k].operand1.name)
    /\ Len(result.image) = 69

\* The relation the comparison opcode o stands for, on signed values.
Compares(o, x, y) ==
    CASE o = "EQ" -> x = y
      [] o = "NEQ" -> x # y
      [] o = "GT" -> x > y
      [] o = "LT" -> x < y
      [] o = "GTQ" -> x >= y
      [] o = "LTQ" -> x <= y

\* C30: EQ, NEQ, GT, LT, GTQ and LTQ set the equal flag to the truth of
\* r1 ==, !=, >, <, >=, <= r2 (signed 32-bit), consume one pad byte after the
\* two register bytes, and leave registers, remainder and heap unchanged.
C30_ComparisonsSetEqualFlag ==
    [][\A o \in {"EQ", "NEQ", "GT", "LT", "GTQ", "LTQ"} :
          (VMStep /\ Decodes(o) /\ HasOperands(3, 2))
             => /\ mode' # "panicked"
                /\ vm'.equal_flag = Compares(o, reg(vm, 1), reg(vm, 2))
                /\ vm'.pc = vm.pc + 4
                /\ vm'.registers = vm.registers
                /\ vm'.remainder = vm.remainder
                /\ vm'.heap = vm.heap]_vars

\* LT compared the smallest i32 with the largest and set the flag, and the
\* HLT after its pad byte was executed next.
C30_Witness ==
    /\ last.op = "HLT"
    /\ last.at = 68
    /\ SubSeq(vm.program, 65, 69) = <<12, 0, 1, 0, 0>>
    /\ vm.registers[0] = I32Min
    /\ vm.registers[1] = I32Max
    /\ vm.equal_flag
    /\ status = 0

\* ------------------------------------------------------------- VM branches
\* The address just after the register operand byte of the opcode at pc.
AfterOperand == vm.pc + 2

\* The usize addition of JMPF or subtraction of JMPB leaves 0 .. 2^64 - 1: a
\* negative register is the usize 2^64 + r[reg].
BranchOverflows ==
    \/ Decodes("JMPF") /\ reg(vm, 1) < 0 /\ AfterOperand + reg(vm, 1) >= 0
    \/ Decodes("JMPB") /\ (reg(vm, 1) < 0 \/ reg(vm, 1) > AfterOperand)

\* The pc the branch opcode decoded at pc assigns.
BranchTarget ==
    CASE Decodes("JMP") -> reg(vm, 1)
      [] Decodes("JMPF") -> AfterOperand + reg(vm, 1)
      [] Decodes("JMPB") -> AfterOperand - reg(vm, 1)
      [] Decodes("JEQ") -> IF vm.equal_flag THEN reg(vm, 1) ELSE AfterOperand

\* The step of a branch opcode assigned pc and changed no register or flag.
Branched ==
    /\ mode' # "panicked"
    /\ vm'.pc = BranchTarget
    /\ vm'.registers = vm.registers
    /\ vm'.equal_flag = vm.equal_flag

\* A branch opcode with its register operand is about to be executed.
BranchStep ==
    /\ VMStep
    /\ \E o \in {"JMP", "JMPF", "JMPB", "JEQ"} : Decodes(o)
    /\ HasOperands(1, 1)

C32_HaltConsumesOneByte ==
    [][(mode = "running" /\ VMStep /\ (Decodes("HLT") \/ Decodes("IGL")))
          => /\ mode' = "idle"
             /\ vm' = [vm EXCEPT !.pc = vm.pc + 1]]_vars

\* run stopped at address 65 on a byte that is no opcode, the first body
\* byte, with the registers it was set up with.
C32_Witness ==
    /\ last = [op |-> "IGL", at |-> 64, done |-> TRUE]
    /\ mode = "idle"
    /\ vm.pc = 65
    /\ vm.program[65] = 200
    /\ vm.registers[0] = 10
    /\ vm.registers[1] = -10

\* Byte n (0 the lowest) of the 32-bit two's complement form of x.
ByteOf(x, n) ==
    IF n = 0 THEN x % 256
    ELSE IF n = 1 THEN (x \div 256) % 256
    ELSE IF n = 2 THEN (x \div 65536) % 256
    ELSE (x \div 16777216) % 256

\* z is x + y modulo 2^32: byte by byte with carry.
IsWrappedSum(z, x, y) ==
    LET s0 == ByteOf(x, 0) + ByteOf(y, 0)
        s1 == ByteOf(x, 1) + ByteOf(y, 1) + (s0 \div 256)
        s2 == ByteOf(x, 2) + ByteOf(y, 2) + (s1 \div 256)
        s3 == ByteOf(x, 3) + ByteOf(y, 3) + (s2 \div 256)
    IN  <<ByteOf(z, 0), ByteOf(z, 1), ByteOf(z, 2), ByteOf(z, 3)>>
            = <<s0 % 256, s1 % 256, s2 % 256, s3 % 256>>

\* z is x * y modulo 2^32: the columns of the byte products with carry.
IsWrappedProduct(z, x, y) ==
    LET c0 == ByteOf(x, 0) * ByteOf(y, 0)
        c1 == (ByteOf(x, 0) * ByteOf(y, 1)) + (ByteOf(x, 1) * ByteOf(y, 0)) + (c0 \div 256)
        c2 == (ByteOf(x, 0) * ByteOf(y, 2)) + (ByteOf(x, 1) * ByteOf(y, 1))
              + (ByteOf(x, 2) * ByteOf(y, 0)) + (c1 \div 256)
        c3 == (ByteOf(x, 0) * ByteOf(y, 3)) + (ByteOf(x, 1) * ByteOf(y, 2))
              + (ByteOf(x, 2) * ByteOf(y, 1)) + (ByteOf(x, 3) * ByteOf(y, 0)) + (c2 \div 256)
    IN  <<ByteOf(z, 0), ByteOf(z, 1), ByteOf(z, 2), ByteOf(z, 3)>>
            = <<c0 % 256, c1 % 256, c2 % 256, c3 % 256>>

\* C33: ADD, SUB and MUL store in rd the result of r1 + r2, r1 - r2 and
\* r1 * r2 reduced to a signed 32-bit value with wraparound, for every pair of
\* register values, those whose exact result is outside the i32 range
\* included, and change no other register.
C33_ArithmeticWraps ==
    [][(VMStep /\ HasOperands(3, 3) /\ (Decodes("ADD") \/ Decodes("SUB") \/ Decodes("MUL")))
          => LET x == reg(vm, 1)
                 y == reg(vm, 2)
                 rd == program_at(vm, 3)
                 z == vm'.registers[rd]
             IN  /\ mode' # "panicked"
                 /\ Decodes("ADD") => IsWrappedSum(z, x, y)
                 /\ Decodes("SUB") => IsWrappedSum(x, z, y)
                 /\ Decodes("MUL") => IsWrappedProduct(z, x, y)
                 /\ \A r \in 0..(NumRegisters - 1) :
                       r # rd => vm'.registers[r] = vm.registers[r]]_vars

\* ----------------------------------------------------------- assembler passes
\* The Assembler as the first pass of the first assemble call leaves it.
AfterFirstPass == process_first_phase(NewAssembler, src)

\* C34: in the second pass section headers and asciiz directives are no-ops:
\* the sections list, the current section, the symbol table, the ro buffer and
\* the error list are after the second pass what they were before it.
C34_SecondPassDirectivesAreNoOps ==
    (calls = 1 /\ result.kind = "Ok" /\ BothSections(src))
        => /\ asm.sections = AfterFirstPass.sections
           /\ asm.current_section = AfterFirstPass.current_section
           /\ asm.symbols = AfterFirstPass.symbols
           /\ asm.ro = AfterFirstPass.ro
           /\ asm.errors = AfterFirstPass.errors


\* C35: a label-use operand whose name is in the symbol table is emitted as
\* two bytes, high byte first, of the symbol's offset modulo 65536; one whose
\* name is not in the table contributes no bytes (the next opcode byte, or the
\* end of the image, follows directly) and does not make the assembly fail:
\* a source whose first pass found two sections and no error is assembled.
C35_LabelUseEmitsOffsetOrNothing ==
    (calls = 1 /\ Len(src) > 0 /\ AfterFirstPass.errors = <<>>
        /\ Len(AfterFirstPass.sections) = 2)
        => /\ result.kind = "Ok"
           /\ Len(result.image) = 64 + BodyBytes(src, asm.symbols, Len(src))
           /\ \A k \in OpcodeLines(src, Len(src)) :
                LET start == 64 + BodyBytes(src, asm.symbols, k - 1)
                IN  /\ ImageByte(start) = OpcodeAsU8(src[k].opcode.name)
                    /\ \A n \in 1..3 :
                         LET t == OperandOf(src[k], n)
                             at == start + OperandStart(src[k], asm.symbols, n)
                             offset == symbol_value(asm.symbols, t.name)
                         IN  (t.kind = "LabelUsage" /\ has_symbol(asm.symbols, t.name)) =>
                                 /\ ImageByte(at) = (offset % 65536) \div 256
                                 /\ ImageByte(at + 1) = (offset % 65536) % 256

\* A source with a `prts @a` and no declaration of a was assembled: its image
\* holds the opcode byte of prts and nothing for the operand.
C35_Witness ==
    /\ calls = 1
    /\ result.kind = "Ok"
    /\ \E k \in OpcodeLines(src, Len(src)) :
          /\ src[k].operand1.kind = "LabelUsage"
          /\ ~has_symbol(asm.symbols, src[k].operand1.name)
          /\ Len(result.image) = 65


\* ------------------------------------------------------------- symbol table
\* The entries of symbols named n, and the table read as a map from names to
\* offsets (NoValue for a name without entry).
Entries(symbols, n) == {k \in 1..Len(symbols) : symbols[k].name = n}
MapOf(symbols) ==
    [n \in SymNames |->
        IF Entries(symbols, n) = {} THEN NoValue
        ELSE symbols[CHOOSE k \in Entries(symbols, n) : TRUE].offset]

\* What a call on a map m from names to offsets returns and leaves.
MapCall(m, c, after) ==
    /\ c.op = "add_symbol" => after = [m EXCEPT ![c.name] = c.offset]
    /\ c.op = "set_symbol_offset" =>
          /\ c.found = (m[c.name] # NoValue)
          /\ after = IF m[c.name] # NoValue THEN [m EXCEPT ![c.name] = c.offset] ELSE m
    /\ c.op = "has_symbol" => c.found = (m[c.name] # NoValue) /\ after = m
    /\ c.op = "symbol_value" => c.value = m[c.name] /\ after = m

\* C36: under calls of add_symbol (never with a name already in the table),
\* set_symbol_offset, has_symbol and symbol_value the table behaves as a map
\* from names to offsets: each name has at most one entry, symbol_value
\* returns the offset last stored for the name or nothing, has_symbol is true
\* exactly for the inserted names, set_symbol_offset returns true exactly when
\* the name is present and then replaces its offset, and no name is removed.
C36_SymbolTableIsAMap ==
    [][ /\ MapCall(MapOf(table), symcall', MapOf(table'))
        /\ \A n \in SymNames :
              /\ Cardinality(Entries(table', n)) <= 1
              /\ Entries(table, n) # {} => Entries(table', n) # {} ]_vars

\* set_symbol_offset was called for a name of a table of two or more symbols
\* and returned true; the table holds the new offset for it.
C36_Witness ==
    /\ symcall.op = "set_symbol_offset"
    /\ symcall.found
    /\ Len(table) >= 2
    /\ symcall.offset = 12
    /\ MapOf(table)[symcall.name] = 12


\* What the first assemble call on a new Assembler returned for src.
FirstResult == assemble(NewAssembler, src).result

\* C37: a second assemble call on the same Assembler with the same source,
\* when the first call returned an image, returns the same image.
C37_SecondAssembleReturnsSameImage ==
    (calls = 2 /\ FirstResult.kind = "Ok" /\ BothSections(src))
        => result = FirstResult


\* The Assembler before instruction k of src in the first pass of the first
\* assemble call.
BeforeLine(k) == first_phase_loop(NewAssembler, SubSeq(src, 1, k - 1), 1)

TableOperands(o) ==
    CASE o \in {"HLT"} -> <<"None", "None", "None">>
      [] o \in {"LOAD"} -> <<"Register", "IntegerOperand", "None">>
      [] o \in {"ADD", "SUB", "MUL", "DIV"} -> <<"Register", "Register", "Register">>
      [] o \in {"EQ", "NEQ", "GT", "LT", "GTQ", "LTQ"} -> <<"Register", "Register", "None">>
      [] o \in {"JMP", "JMPF", "JMPB", "JEQ", "ALOC", "INC", "DEC"} -> <<"Register", "None", "None">>
      [] o \in {"PRTS"} -> <<"LabelUsage", "None", "None">>
      [] OTHER -> <<"None", "None", "None">>

\* Every opcode-bearing instruction of p carries the operands of the opcode
\* table, and none is a branch.
WellFormedSource(p) ==
    \A k \in OpcodeLines(p, Len(p)) :
        /\ p[k].opcode.name \notin Branching
        /\ <<p[k].operand1.kind, p[k].operand2.kind, p[k].operand3.kind>>
              = TableOperands(p[k].opcode.name)

\* The program bytes execute_instruction reads for a decoded opcode, the
\* opcode byte included.
BytesRead(o) ==
    CASE o \in {"HLT", "IGL"} -> 1
      [] o \in {"JMP", "JMPF", "JMPB", "JEQ", "ALOC", "INC", "DEC"} -> 2
      [] o \in {"PRTS"} -> 3
      [] OTHER -> 4

\* main's run of the image assembled from the input file is under way.
InMainRun == calls = 1 /\ result.kind = "Ok" /\ runs = 1 /\ commands = 0 /\ mode = "running"

\* C39: while main runs the image assembled from a source whose instructions
\* carry the operands of the opcode table and no branch opcodes, every
\* instruction the VM executes lies within the program: the bytes it reads
\* end at or before the program's length.
C39_RunReadsInsideProgram ==
    [][ (InMainRun /\ WellFormedSource(src) /\ VMStep /\ ~pc_at_end(vm))
            => vm.pc + BytesRead(OpcodeFromU8(program_at(vm, 0))) <= Len(vm.program) ]_vars


\* --------------------------------------------------------------- termination
\* The turns of the loop still allowed cover the bytes from pc to the end of
\* the program and the turn that finds pc at the end.
StepsCoverProgram == steps + (Len(vm.program) - vm.pc) + 1 <= MaxSteps

\* C40: a run that decodes no JMP, JMPF, JMPB or JEQ does not go on forever:
\* every turn of the loop after which run goes on has moved pc forward, and the
\* loop ends (run returns, or the VM panics) unless a branch opcode is decoded.
C40_RunWithoutBranchesStops ==
    /\ [][ (mode = "running" /\ VMStep /\ mode' = "running" /\ last'.op \notin Branching)
              => vm'.pc > vm.pc ]_vars
    /\ (mode = "running" /\ StepsCoverProgram)
          ~> (mode # "running" \/ last.op \in Branching)

\* run returned 0 after three turns of its loop: two instructions executed,
\* then pc found at the end of the program.
C40_Witness ==
    /\ mode = "idle"
    /\ status = 0
    /\ runs = 1
    /\ steps = 3
    /\ last.done
    /\ last.at = Len(vm.program)
    /\ vm.pc = Len(vm.program)

====
